---- MODULE Spec2Model ----
(***************************************************************************)
(* Model of fx_library.backtest.Backtest: the per-bar loop of run(), the   *)
(* order placement of __order and the settlement state machine of          *)
(* __settlement (__all_close, __loss_fixed, __profit_fixed,                *)
(* __calc_trail_stop).                                                     *)
(*                                                                         *)
(* Numbers.  Prices and spreads are integers counted in price points; the  *)
(* pip size parameter.pip is a number of points.  A result is a number of  *)
(* pips rounded to two decimals (round(x / pip, 2)); it is kept as the     *)
(* integer number of hundredths of a pip, so the configured profit of p    *)
(* pips is the result Scale * p.                                           *)
(* An optional field (None in the source) is the empty sequence, a set     *)
(* field the one-element sequence of its value.                            *)
(***************************************************************************)
EXTENDS Integers, Sequences, FiniteSets, TLC

VARIABLES
    parameter,    \* self.parameter: the configuration of the run
    idx,          \* number of rows of self.df.values the loop has taken
    data,         \* the columns of the current row the loop body has still to read
    pc,           \* position of run(): "for", "order", "done", "failed"
    orders,       \* self.orders: direction -> list of open Order
    settlements,  \* self.settlements: list of settled Order
    result_df,    \* self.result_df
    opened,       \* number of Order objects constructed so far (object identities)
    calls,        \* the calls of __order made by the last loop body
    asked,        \* number of calls of direction_function made by the last loop body
    skipped,      \* the gate at which the last loop body skipped the order, if any
    flag,         \* the flag of the call of __settlement of the running loop body
    nsettle,      \* number of calls of __settlement made so far
    binding,      \* the column names of parameter: time_column, open_column, ...
    index,        \* self.time_index, self.open_index, ...: None while not set
    df,           \* a candle series two Backtest instances are built over
    heap,         \* the order books and histories of the instances, by reference
    runs,         \* the two instances: parameter, reference, position in run()
    table,        \* Performance.df: the settled trades given to a Performance
    report,       \* what performance() returned
    ppc,          \* the position of the user of the Performance
    call,         \* a call of a function of utils.py or of a method of Mt5
    ret,          \* what the call returned or raised: None while it runs
    sent          \* the requests the call sent to the broker

runvars == <<parameter, idx, data, pc, orders, settlements, result_df, opened, calls,
             asked, skipped, flag, nsettle, binding, index>>
pairvars == <<df, heap, runs>>
perfvars == <<table, report, ppc>>
callvars == <<call, ret, sent>>
vars == <<runvars, pairvars, perfvars, callvars>>

----------------------------------------------------------------------------
\* Bounds of the model.
MaxBars == 3
MaxPrice == 2
MaxSpread == 2
MaxOpened == 3
MaxShared == 2
MaxTrades == 2
MaxValue == 4
MaxIncrease == 2
MaxColumns == 2
MaxPositions == 2

\* class Direction
ASK == 1
ZERO == 0
BID == -1

\* round(x, 2): two decimals, results counted in 1/Scale pip
Scale == 100

None == <<>>
Some(v) == <<v>>
Val(x) == x[1]

Abs(x) == IF x < 0 THEN -x ELSE x

\* Faulty variant of the dict: the BID list comes first.
KeysBidFirst == <<BID, ASK>>

\* The keys of self.orders, in the order the dict is built and iterated.
Keys == <<ASK, BID>>
Directions == {ASK, BID}

\* What a call of parameter.direction_function can return.
Outcomes == {ASK, ZERO, BID}

Hours == 0 .. 2
Prices == 0 .. MaxPrice
Spreads == 0 .. MaxSpread

\* Rows of the candle series without their time: low <= open, close <= high.
Candles ==
    UNION { UNION { { [hour |-> h, open |-> o, high |-> hi, low |-> lo,
                       close |-> c, spread |-> s] :
                      h \in Hours, o \in lo .. hi, c \in lo .. hi, s \in Spreads } :
                    hi \in lo .. MaxPrice } :
            lo \in Prices }

\* A row of self.df.values: a candle at a time.
Row(time, c) ==
    [time |-> time, hour |-> c.hour, open |-> c.open, high |-> c.high,
     low |-> c.low, close |-> c.close, spread |-> c.spread]

\* dataclass Parameter: the configurations explored.  The session is the
\* hour 1 of the hours 0 .. 2, the pip is one price point, and a loss of two
\* pips is explored with one position per direction and no reverse order.
Parameters ==
    { p \in [ trade_start_hour : {1},
              trade_end_hour   : {2},
              position_count   : {1, 2},
              profit           : {1},
              loss             : {1, 2},
              trail_stop       : BOOLEAN,
              spread_threshold : {1},
              pip              : {1},
              reverse_order    : BOOLEAN ] :
        p.loss = 2 => (p.position_count = 1 /\ ~p.reverse_order) }

----------------------------------------------------------------------------
\* round(num / den, 2) for den > 0, in hundredths: round half to even.
Round2(num, den) ==
    LET n == Scale * num
        a == Abs(n)
        q == a \div den
        r == a % den
        m == IF 2 * r > den \/ (2 * r = den /\ q % 2 = 1) THEN q + 1 ELSE q
    IN  IF n < 0 THEN -m ELSE m

\* dataclass Settlement, built from the row at the head of __settlement.
Settlement(row) ==
    [open_price |-> row.open, high_price |-> row.high,
     low_price |-> row.low, spread |-> row.spread]

\* Faulty variant of the construction: a buy is entered at the close, as a
\* sell is.
NewOrderAtClose(id, row, direction, p) ==
    LET order_price == row.close
        profit_pip0 == p.profit * p.pip
        profit_pip  == IF direction = ASK THEN profit_pip0 ELSE profit_pip0 * (-1)
        loss_pip0   == p.loss * p.pip
        loss_pip    == IF direction = ASK THEN loss_pip0 * (-1) ELSE loss_pip0
    IN  [id               |-> id,
         order_time       |-> row.time,
         order_price      |-> order_price,
         spread           |-> row.spread,
         direction        |-> direction,
         profit_price     |-> order_price + profit_pip,
         loss_price       |-> order_price + loss_pip,
         settlement_time  |-> None,
         settlement_price |-> None,
         result           |-> None,
         by               |-> <<>>]

\* dataclass Order as __order constructs it.  id is the identity of the
\* object; by lists the rules that assigned result, in order of assignment.
NewOrder(id, row, direction, p) ==
    LET order_price == IF direction = ASK THEN row.close + row.spread ELSE row.close
        profit_pip0 == p.profit * p.pip
        profit_pip  == IF direction = ASK THEN profit_pip0 ELSE profit_pip0 * (-1)
        loss_pip0   == p.loss * p.pip
        loss_pip    == IF direction = ASK THEN loss_pip0 * (-1) ELSE loss_pip0
    IN  [id               |-> id,
         order_time       |-> row.time,
         order_price      |-> order_price,
         spread           |-> row.spread,
         direction        |-> direction,
         profit_price     |-> order_price + profit_pip,
         loss_price       |-> order_price + loss_pip,
         settlement_time  |-> None,
         settlement_price |-> None,
         result           |-> None,
         by               |-> <<>>]

\* Faulty variant of the guard of __order: > in place of >=.
OrderRejectedOffByOne(book, direction, p) ==
    Len(book[direction]) > p.position_count

\* The guard of __order: the direction's list is full.
OrderRejected(book, direction, p) ==
    Len(book[direction]) >= p.position_count

\* Faulty variant of __order: the new order is inserted at the head of the
\* direction's list.
OrderAtHead(book, id, row, direction, p) ==
    IF OrderRejected(book, direction, p)
    THEN book
    ELSE [book EXCEPT ![direction] = <<NewOrder(id, row, direction, p)>> \o @]

\* __order(data, direction) on the order book `book`.
Order(book, id, row, direction, p) ==
    IF OrderRejected(book, direction, p)
    THEN book
    ELSE [book EXCEPT ![direction] = Append(@, NewOrder(id, row, direction, p))]

\* Faulty variant of __all_close: the result is clamped as __loss_fixed
\* clamps it.
AllCloseClamped(order, settlement, p) ==
    LET settlement_price ==
            IF order.direction = ASK
            THEN settlement.open_price
            ELSE settlement.open_price + settlement.spread
        result ==
            IF order.direction = ASK
            THEN settlement_price - order.order_price
            ELSE order.order_price - settlement_price
        rounded == Round2(result, p.pip)
    IN  [order EXCEPT !.settlement_price = Some(settlement_price),
                      !.result = Some(IF Abs(rounded) >= Scale * p.loss
                                      THEN Scale * p.loss * (-1)
                                      ELSE rounded),
                      !.by = Append(@, "all")]

\* __all_close
AllClose(order, settlement, p) ==
    LET settlement_price ==
            IF order.direction = ASK
            THEN settlement.open_price
            ELSE settlement.open_price + settlement.spread
        result ==
            IF order.direction = ASK
            THEN settlement_price - order.order_price
            ELSE order.order_price - settlement_price
    IN  [order EXCEPT !.settlement_price = Some(settlement_price),
                      !.result = Some(Round2(result, p.pip)),
                      !.by = Append(@, "all")]

\* Faulty variant of the condition of __loss_fixed: equality does not
\* trigger.
LossConditionStrict(order, settlement) ==
    IF order.direction = ASK
    THEN order.loss_price > settlement.low_price
    ELSE order.loss_price < settlement.high_price + settlement.spread

\* The condition under which __loss_fixed settles.
LossCondition(order, settlement) ==
    IF order.direction = ASK
    THEN order.loss_price >= settlement.low_price
    ELSE order.loss_price <= settlement.high_price + settlement.spread

\* Faulty variant of the clamp: the rounded result is kept as it is.
LossNoClamp(result, p) == result

\* The clamp of __loss_fixed on the rounded result.
LossClamp(result, p) ==
    IF Abs(result) >= Scale * p.loss THEN Scale * p.loss * (-1) ELSE result

\* Faulty variant of the early return: the rules never return early.
AlreadySettledNever(order) == FALSE

\* The early return of __loss_fixed, __profit_fixed and __calc_trail_stop.
AlreadySettled(order) == order.result # None

\* __loss_fixed
LossFixed(order, settlement, p) ==
    IF AlreadySettled(order) THEN order
    ELSE IF ~LossCondition(order, settlement) THEN order
    ELSE
        LET target_price ==
                IF order.direction = ASK
                THEN settlement.low_price
                ELSE settlement.high_price + settlement.spread
            result ==
                IF order.direction = ASK
                THEN order.loss_price - order.order_price
                ELSE order.order_price - order.loss_price
        IN  [order EXCEPT !.settlement_price = Some(target_price),
                          !.result = Some(LossClamp(Round2(result, p.pip), p)),
                          !.by = Append(@, "loss")]

\* Faulty variant of the condition of __profit_fixed: equality triggers.
ProfitConditionInclusive(order, settlement) ==
    IF order.direction = ASK
    THEN order.profit_price <= settlement.high_price
    ELSE order.profit_price >= settlement.low_price + settlement.spread

\* The condition under which __profit_fixed settles.
ProfitCondition(order, settlement) ==
    IF order.direction = ASK
    THEN order.profit_price < settlement.high_price
    ELSE order.profit_price > settlement.low_price + settlement.spread

\* __profit_fixed
ProfitFixed(order, settlement, p) ==
    IF AlreadySettled(order) THEN order
    ELSE IF ~ProfitCondition(order, settlement) THEN order
    ELSE
        LET target_price ==
                IF order.direction = ASK
                THEN settlement.high_price
                ELSE settlement.low_price + settlement.spread
        IN  [order EXCEPT !.settlement_price = Some(target_price),
                          !.result = Some(Scale * p.profit),
                          !.by = Append(@, "profit")]

\* The price __calc_trail_stop compares the stop with.
TrailTarget(order, settlement, p) ==
    LET loss_pip == p.loss * p.pip
    IN  IF order.direction = ASK
        THEN (settlement.high_price + settlement.spread) - loss_pip
        ELSE settlement.low_price + loss_pip

\* Faulty variant of the trailing comparison: the stop always moves.
TrailAlways(order, target_price) == TRUE

\* Whether __calc_trail_stop moves the stop to the target price.
TrailMoves(order, target_price) ==
    IF order.direction = ASK
    THEN order.loss_price < target_price
    ELSE order.loss_price > target_price

\* Faulty variant of __calc_trail_stop: the trail_stop flag is not read.
CalcTrailStopUnconditional(order, settlement, p) ==
    IF AlreadySettled(order) THEN order
    ELSE
        LET target_price == TrailTarget(order, settlement, p)
        IN  IF TrailMoves(order, target_price)
            THEN [order EXCEPT !.loss_price = target_price]
            ELSE order

\* __calc_trail_stop
CalcTrailStop(order, settlement, p) ==
    IF AlreadySettled(order) THEN order
    ELSE IF ~p.trail_stop THEN order
    ELSE
        LET target_price == TrailTarget(order, settlement, p)
        IN  IF TrailMoves(order, target_price)
            THEN [order EXCEPT !.loss_price = target_price]
            ELSE order

\* Faulty variant of the loop body: __profit_fixed is called before
\* __loss_fixed.
EvaluateProfitFirst(order, settlement, all, p) ==
    LET o1 == IF all THEN AllClose(order, settlement, p) ELSE order
        o2 == ProfitFixed(o1, settlement, p)
        o3 == LossFixed(o2, settlement, p)
    IN  CalcTrailStop(o3, settlement, p)

\* Faulty variant of the loop body: the forced closure comes after the loss
\* and profit rules and applies to the orders they left open.
EvaluateForceLast(order, settlement, all, p) ==
    LET o1 == LossFixed(order, settlement, p)
        o2 == ProfitFixed(o1, settlement, p)
        o3 == IF all /\ o2.result = None THEN AllClose(o2, settlement, p) ELSE o2
    IN  CalcTrailStop(o3, settlement, p)

\* The body of the inner loop of __settlement up to the removal: the four
\* rules applied to one order, in the order of the source.
Evaluate(order, settlement, all, p) ==
    LET o1 == IF all THEN AllClose(order, settlement, p) ELSE order
        o2 == LossFixed(o1, settlement, p)
        o3 == ProfitFixed(o2, settlement, p)
    IN  CalcTrailStop(o3, settlement, p)

\* Faulty variant of the removal: list.pop() removes the last element.
PopLast(list, i) == SubSeq(list, 1, Len(list) - 1)

\* list.pop(i) (1-based here): the list without its i-th element.
Pop(list, i) ==
    [j \in 1 .. (Len(list) - 1) |-> IF j < i THEN list[j] ELSE list[j + 1]]

\* order.settlement_time = data[self.time_index]
Settle(order, time) == [order EXCEPT !.settlement_time = Some(time)]

\* Faulty variant of the append: the order is inserted at the head.
PrependSettled(hist, order) == <<order>> \o hist

\* self.settlements.append(...)
AppendSettled(hist, order) == Append(hist, order)

\* Faulty variant of the inner loop: after a removal the loop passes over
\* the next order.
RECURSIVE SettleListSkipping(_, _, _, _, _, _)
SettleListSkipping(st, i, settlement, time, all, p) ==
    IF i <= 0 THEN st
    ELSE
        LET order == Evaluate(st.list[i], settlement, all, p)
        IN  IF order.result # None
            THEN SettleListSkipping(
                     [list        |-> Pop(st.list, i),
                      settlements |-> AppendSettled(st.settlements, Settle(order, time))],
                     i - 2, settlement, time, all, p)
            ELSE SettleListSkipping(
                     [list        |-> [st.list EXCEPT ![i] = order],
                      settlements |-> st.settlements],
                     i - 1, settlement, time, all, p)

\* The inner loop of __settlement over one direction's list, from its last
\* index i down to the first; st is [list, settlements].
RECURSIVE SettleList(_, _, _, _, _, _)
SettleList(st, i, settlement, time, all, p) ==
    IF i = 0 THEN st
    ELSE
        LET order == Evaluate(st.list[i], settlement, all, p)
            next  == IF order.result # None
                     THEN [list        |-> Pop(st.list, i),
                           settlements |-> AppendSettled(st.settlements,
                                                         Settle(order, time))]
                     ELSE [list        |-> [st.list EXCEPT ![i] = order],
                           settlements |-> st.settlements]
        IN  SettleList(next, i - 1, settlement, time, all, p)

\* __settlement(data, all): the outer loop over the keys of self.orders.
\* Returns [orders, settlements].
RECURSIVE SettleKeys(_, _, _, _, _, _)
SettleKeys(st, k, row, all, p, keys) ==
    IF k > Len(keys) THEN st
    ELSE
        LET key == keys[k]
            r   == SettleList([list |-> st.orders[key], settlements |-> st.settlements],
                              Len(st.orders[key]), Settlement(row), row.time, all, p)
        IN  SettleKeys([orders      |-> [st.orders EXCEPT ![key] = r.list],
                        settlements |-> r.settlements],
                       k + 1, row, all, p, keys)

DoSettlement(book, hist, row, all, p) ==
    SettleKeys([orders |-> book, settlements |-> hist], 1, row, all, p, Keys)

\* Faulty variant of the flag: > in place of >=.
AllFlagStrict(row, p) == row.hour > p.trade_end_hour

\* The flag run() passes to __settlement.
AllFlag(row, p) == row.hour >= p.trade_end_hour

\* The opposite direction run() orders under reverse_order.
Reverse(direction) == IF direction = ASK THEN BID ELSE ASK

\* The columns of the row that run() reads after the call of __settlement.
Pending(row) ==
    [time |-> row.time, hour |-> row.hour, close |-> row.close, spread |-> row.spread]

\* Faulty variant of the spread gate: >= in place of >.
SpreadBlockedAtThreshold(row, p) == row.spread >= p.spread_threshold

\* The spread gate of run().
SpreadBlocked(row, p) == row.spread > p.spread_threshold

\* Faulty variant of the session gate: the end hour belongs to the session.
InSessionInclusive(row, p) ==
    p.trade_start_hour <= row.hour /\ row.hour <= p.trade_end_hour

\* The session gate of run().
InSession(row, p) == p.trade_start_hour <= row.hour /\ row.hour < p.trade_end_hour

\* One call of __order from run(): the book after it and the record of the
\* call.  st is [orders, opened, calls].
CallOrder(st, row, direction, p) ==
    LET placed == ~OrderRejected(st.orders, direction, p)
    IN  [orders |-> Order(st.orders, st.opened + 1, row, direction, p),
         opened |-> IF placed THEN st.opened + 1 ELSE st.opened,
         calls  |-> Append(st.calls, [direction |-> direction, placed |-> placed])]

\* Faulty variant of the orders of run(): reverse_order is ignored.
PlaceOrdersNoReverse(st, row, direction, p) == CallOrder(st, row, direction, p)

\* Faulty variant of the orders of run(): the order in the returned
\* direction is never placed.
PlaceOrdersPrimaryUnplaced(st, row, direction, p) ==
    LET s1 == [st EXCEPT !.calls =
                   Append(st.calls, [direction |-> direction, placed |-> FALSE])]
    IN  IF p.reverse_order
        THEN CallOrder(s1, row, Reverse(direction), p)
        ELSE s1

\* The order and the reverse order of run() for a direction other than ZERO.
PlaceOrders(st, row, direction, p) ==
    LET s1 == CallOrder(st, row, direction, p)
    IN  IF p.reverse_order
        THEN CallOrder(s1, row, Reverse(direction), p)
        ELSE s1

----------------------------------------------------------------------------
\* The columns of the candle series (self.df.columns) and the columns
\* Backtest.__init__ looks up, in the order of its lookups.
Columns == <<"time", "open", "high", "low", "close", "spread">>
Lookups == <<"time", "open", "close", "high", "low", "spread">>
LookupSet == { Lookups[k] : k \in 1 .. Len(Lookups) }

\* The column names of a Parameter: each of the six is the name of its
\* column of the series or a name the series does not have.
Bindings ==
    { [r \in LookupSet |-> IF r \in S THEN r ELSE "absent"] : S \in SUBSET LookupSet }

\* Faulty variant of Index.get_loc: -1 for a name that is not a column.
GetLocOrMinusOne(columns, name) ==
    IF \E i \in 1 .. Len(columns) : columns[i] = name
    THEN Some((CHOOSE i \in 1 .. Len(columns) : columns[i] = name) - 1)
    ELSE Some(-1)

\* columns.get_loc(name): the position of the name, from 0; None stands for
\* the KeyError it raises when the name is not a column.
GetLoc(columns, name) ==
    IF \E i \in 1 .. Len(columns) : columns[i] = name
    THEN Some((CHOOSE i \in 1 .. Len(columns) : columns[i] = name) - 1)
    ELSE None

\* The six lookups of __init__ from the k-th on; ix is the indexes set so
\* far.  Returns the indexes set and whether a lookup raised.
RECURSIVE GetLocs(_, _, _)
GetLocs(ix, k, names) ==
    IF k > Len(Lookups) THEN [index |-> ix, raised |-> FALSE]
    ELSE
        LET loc == GetLoc(Columns, names[Lookups[k]])
        IN  IF loc = None
            THEN [index |-> ix, raised |-> TRUE]
            ELSE GetLocs([ix EXCEPT ![Lookups[k]] = loc], k + 1, names)

\* No single Backtest under observation.
NoRun ==
    /\ idx = 0
    /\ data = None
    /\ pc = "idle"
    /\ orders = [d \in Directions |-> <<>>]
    /\ settlements = <<>>
    /\ result_df = None
    /\ opened = 0
    /\ calls = <<>>
    /\ asked = 0
    /\ skipped = "no"
    /\ flag = None
    /\ nsettle = 0
    /\ binding = [r \in LookupSet |-> r]
    /\ index = [r \in LookupSet |-> None]

\* No pair of instances and no Performance.
NoPair == df = <<>> /\ heap = <<>> /\ runs = <<>>
NoPerformance == table = <<>> /\ report = None /\ ppc = "idle"

\* No call of a utility or of the broker adapter.
NoCall == call = None /\ ret = None /\ sent = <<>>

\* The state after a construction that succeeded.
Init ==
    /\ parameter \in Parameters
    /\ idx = 0
    /\ data = None
    /\ pc = "for"
    /\ orders = [d \in Directions |-> <<>>]
    /\ settlements = <<>>
    /\ result_df = None
    /\ opened = 0
    /\ calls = <<>>
    /\ asked = 0
    /\ skipped = "no"
    /\ flag = None
    /\ nsettle = 0
    /\ binding = [r \in LookupSet |-> r]
    /\ index = GetLocs([r \in LookupSet |-> None], 1, binding).index
    /\ NoPair
    /\ NoPerformance
    /\ NoCall

\* Faulty variant of the loop body: an order is placed before the call of
\* __settlement, which then evaluates it on the bar that opened it.
RunSettlementAfterOrder ==
    /\ pc = "for"
    /\ idx < MaxBars
    /\ \E c \in Candles, direction \in Directions :
           LET row == Row(idx + 1, c)
               s   == PlaceOrders([orders |-> orders, opened |-> opened, calls |-> <<>>],
                                  row, direction, parameter)
               r   == DoSettlement(s.orders, settlements, row,
                                   AllFlag(row, parameter), parameter)
           IN  /\ s.opened <= MaxOpened
               /\ orders' = r.orders
               /\ settlements' = r.settlements
               /\ opened' = s.opened
               /\ data' = Some(Pending(row))
               /\ flag' = Some(AllFlag(row, parameter))
    /\ idx' = idx + 1
    /\ pc' = "order"
    /\ calls' = <<>>
    /\ asked' = 0
    /\ skipped' = "no"
    /\ nsettle' = nsettle + 1
    /\ UNCHANGED <<parameter, result_df, binding, index, pairvars, perfvars, callvars>>

\* Faulty variant of the loop header: it passes over a row of the series.
RunSettlementSkipsRow ==
    /\ pc = "for"
    /\ idx + 1 < MaxBars
    /\ \E c \in Candles :
           LET row == Row(idx + 2, c)
               r   == DoSettlement(orders, settlements, row,
                                   AllFlag(row, parameter), parameter)
           IN  /\ orders' = r.orders
               /\ settlements' = r.settlements
               /\ data' = Some(Pending(row))
               /\ flag' = Some(AllFlag(row, parameter))
    /\ idx' = idx + 2
    /\ pc' = "order"
    /\ calls' = <<>>
    /\ asked' = 0
    /\ skipped' = "no"
    /\ nsettle' = nsettle + 1
    /\ UNCHANGED <<parameter, result_df, opened, binding, index, pairvars, perfvars, callvars>>

\* for data in self.df.values: the loop takes the next row and calls
\* self.__settlement(data, all=...).  Bar times are strictly ascending: the
\* time of a row is its index.  The columns that only __settlement reads are
\* not kept after it.
RunSettlement ==
    /\ pc = "for"
    /\ idx < MaxBars
    /\ \E c \in Candles :
           LET row == Row(idx + 1, c)
               r   == DoSettlement(orders, settlements, row,
                                   AllFlag(row, parameter), parameter)
           IN  /\ orders' = r.orders
               /\ settlements' = r.settlements
               /\ data' = Some(Pending(row))
               /\ flag' = Some(AllFlag(row, parameter))
    /\ idx' = idx + 1
    /\ pc' = "order"
    /\ calls' = <<>>
    /\ asked' = 0
    /\ skipped' = "no"
    /\ nsettle' = nsettle + 1
    /\ UNCHANGED <<parameter, result_df, opened, binding, index, pairvars, perfvars, callvars>>

\* The rest of the loop body: the spread gate, the session gate, the call
\* of the direction function, the order and the reverse order.  The
\* direction function returns any Direction or raises.  The model explores
\* the runs that construct at most MaxOpened orders.  A continue at the
\* spread gate or a bar outside the session ends the body without a call of
\* the direction function.
RunOrder ==
    /\ pc = "order"
    /\ LET row == Val(data)
           p   == parameter
       IN  IF SpreadBlocked(row, p)
           THEN /\ pc' = "for"
                /\ skipped' = "spread"
                /\ UNCHANGED <<orders, opened, calls, asked>>
           ELSE IF ~InSession(row, p)
           THEN /\ pc' = "for"
                /\ skipped' = "session"
                /\ UNCHANGED <<orders, opened, calls, asked>>
           ELSE \/ /\ pc' = "failed"
                   /\ asked' = asked + 1
                   /\ UNCHANGED <<orders, opened, calls, skipped>>
                \/ \E direction \in Outcomes :
                    /\ pc' = "for"
                    /\ asked' = asked + 1
                    /\ UNCHANGED skipped
                    /\ IF direction = ZERO
                       THEN UNCHANGED <<orders, opened, calls>>
                       ELSE LET r == PlaceOrders([orders |-> orders, opened |-> opened,
                                                  calls |-> calls], row, direction, p)
                            IN  /\ r.opened <= MaxOpened
                                /\ orders' = r.orders
                                /\ opened' = r.opened
                                /\ calls' = r.calls
    /\ data' = None
    /\ flag' = None
    /\ UNCHANGED <<parameter, idx, settlements, result_df, nsettle, binding, index, pairvars, perfvars, callvars>>

\* Faulty variant of the end of run(): result_df is built after a failure
\* of the direction function as well.
RunFinishAfterFailure ==
    /\ pc \in {"for", "failed"}
    /\ pc' = "done"
    /\ result_df' = IF Len(settlements) # 0 THEN Some(settlements) ELSE None
    /\ UNCHANGED <<parameter, idx, data, orders, settlements, opened, calls,
                   asked, skipped, flag, nsettle, binding, index, pairvars, perfvars, callvars>>

\* Faulty variant of the end of run(): result_df is built from an empty
\* history as well.
RunFinishEmptyTable ==
    /\ pc = "for"
    /\ pc' = "done"
    /\ result_df' = Some(settlements)
    /\ UNCHANGED <<parameter, idx, data, orders, settlements, opened, calls,
                   asked, skipped, flag, nsettle, binding, index, pairvars, perfvars, callvars>>

\* The series is exhausted: run() builds result_df and returns.
RunFinish ==
    /\ pc = "for"
    /\ pc' = "done"
    /\ result_df' = IF Len(settlements) # 0 THEN Some(settlements) ELSE None
    /\ UNCHANGED <<parameter, idx, data, orders, settlements, opened, calls,
                   asked, skipped, flag, nsettle, binding, index, pairvars, perfvars, callvars>>

Next == RunSettlement \/ RunOrder \/ RunFinish

Spec == Init /\ [][Next]_vars

\* run() is sequential code: a loop body that has taken its row runs to its
\* end, and the loop ends when the series has no further row.
SpecLive == Spec /\ WF_vars(RunOrder) /\ WF_vars(RunFinish)

\* The state before the construction of a Backtest over the series, for any
\* column names of the parameter.
InitConstruct ==
    /\ parameter \in Parameters
    /\ binding \in Bindings
    /\ index = [r \in LookupSet |-> None]
    /\ pc = "init"
    /\ idx = 0
    /\ data = None
    /\ orders = [d \in Directions |-> <<>>]
    /\ settlements = <<>>
    /\ result_df = None
    /\ opened = 0
    /\ calls = <<>>
    /\ asked = 0
    /\ skipped = "no"
    /\ flag = None
    /\ nsettle = 0
    /\ NoPair
    /\ NoPerformance
    /\ NoCall

\* Backtest.__init__: the empty book and history and the six lookups; a
\* lookup that raises ends the construction and no Backtest exists.
Construct ==
    /\ pc = "init"
    /\ LET r == GetLocs(index, 1, binding)
       IN  /\ index' = r.index
           /\ pc' = IF r.raised THEN "init_failed" ELSE "for"
    /\ orders' = [d \in Directions |-> <<>>]
    /\ settlements' = <<>>
    /\ result_df' = None
    /\ UNCHANGED <<parameter, binding, idx, data, opened, calls, asked, skipped,
                   flag, nsettle, pairvars, perfvars, callvars>>

NextConstruct == Construct \/ RunSettlement \/ RunOrder \/ RunFinish

\* The construction of a Backtest followed by its run().
SpecConstruct == InitConstruct /\ [][NextConstruct]_vars

----------------------------------------------------------------------------
\* Two Backtest instances over one candle series.

Instances == {1, 2}

\* The rows of the shared series: in the session or at its end, with no
\* spread, the lowest low, the highest high and the middle close.
SharedCandles ==
    { c \in Candles : /\ c.hour \in {1, 2}
                      /\ c.spread = 0
                      /\ c.low = 0
                      /\ c.high = MaxPrice
                      /\ c.close = 1 }

\* The parameters of the two instances: two positions per direction, a
\* loss of one pip and no trailing stop, with or without the reverse order.
PairParameters ==
    { p \in Parameters : p.position_count = 2 /\ p.loss = 1 /\ ~p.trail_stop }

\* The direction functions of the two instances: a function of the row,
\* here of its time.
PairFunctions == [1 .. MaxShared -> Directions]

\* Faulty variant of the construction: the instances hold one book and one
\* history in common.
NewBookShared(i) == 1

\* self.orders = {...} and self.settlements = [] in __init__ make new
\* objects for each instance: the reference of instance i is i.
NewBook(i) == i

\* The book and the history of instance i.
Book(i) == heap[runs[i].ref]

\* One pass of the loop of run() for a row and the direction the direction
\* function gives for it: st is [orders, settlements, opened].
LoopBody(st, row, direction, p) ==
    LET r     == DoSettlement(st.orders, st.settlements, row, AllFlag(row, p), p)
        after == [orders |-> r.orders, opened |-> st.opened, calls |-> <<>>]
        s     == IF SpreadBlocked(row, p) \/ ~InSession(row, p) \/ direction = ZERO
                 THEN after
                 ELSE PlaceOrders(after, row, direction, p)
    IN  [orders |-> s.orders, settlements |-> r.settlements, opened |-> s.opened]

\* The book, history and number of orders of a run() by itself over the
\* first k rows of a series.
RECURSIVE Alone(_, _, _, _)
Alone(p, fn, series, k) ==
    IF k = 0
    THEN [orders |-> [d \in Directions |-> <<>>], settlements |-> <<>>, opened |-> 0]
    ELSE LoopBody(Alone(p, fn, series, k - 1), Row(k, series[k]), fn[k], p)

\* Both instances are constructed over the series and none has run.
InitPair ==
    /\ df \in [1 .. MaxShared -> SharedCandles]
    /\ \E ps \in [Instances -> PairParameters], fs \in [Instances -> PairFunctions] :
           runs = [i \in Instances |->
                     [parameter |-> ps[i], fn |-> fs[i], ref |-> NewBook(i),
                      idx |-> 0, opened |-> 0, pc |-> "for", result_df |-> None]]
    /\ heap = [r \in { NewBook(i) : i \in Instances } |->
                 [orders |-> [d \in Directions |-> <<>>], settlements |-> <<>>]]
    /\ parameter = runs[1].parameter
    /\ NoRun
    /\ NoPerformance
    /\ NoCall

\* Instance i takes its next row of the series and runs the loop body.
PairBar(i) ==
    /\ runs[i].pc = "for"
    /\ runs[i].idx < Len(df)
    /\ LET k  == runs[i].idx + 1
           st == LoopBody([orders |-> Book(i).orders,
                           settlements |-> Book(i).settlements,
                           opened |-> runs[i].opened],
                          Row(k, df[k]), runs[i].fn[k], runs[i].parameter)
       IN  /\ heap' = [heap EXCEPT ![runs[i].ref] =
                          [orders |-> st.orders, settlements |-> st.settlements]]
           /\ runs' = [runs EXCEPT ![i].idx = k, ![i].opened = st.opened]
    /\ UNCHANGED <<df, runvars, perfvars, callvars>>

\* The series of instance i is exhausted: its run() builds result_df and
\* returns.
PairFinish(i) ==
    /\ runs[i].pc = "for"
    /\ runs[i].idx = Len(df)
    /\ runs' = [runs EXCEPT ![i].pc = "done",
                            ![i].result_df = IF Len(Book(i).settlements) # 0
                                             THEN Some(Book(i).settlements)
                                             ELSE None]
    /\ UNCHANGED <<df, heap, runvars, perfvars, callvars>>

NextPair == \E i \in Instances : PairBar(i) \/ PairFinish(i)

\* The run() calls of the two instances, interleaved bar by bar.
SpecPair == InitPair /\ [][NextPair]_vars

----------------------------------------------------------------------------
\* class Performance.  Dates are [year, month, day]; results are in
\* hundredths, as in the history.

IsLeap(y) == (y % 4 = 0 /\ y % 100 # 0) \/ y % 400 = 0

DaysInMonth(y, m) ==
    IF m = 2 THEN (IF IsLeap(y) THEN 29 ELSE 28)
    ELSE IF m \in {4, 6, 9, 11} THEN 30 ELSE 31

RECURSIVE DaysBefore(_, _)
DaysBefore(y, m) == IF m = 1 THEN 0 ELSE DaysBefore(y, m - 1) + DaysInMonth(y, m - 1)

DayOfYear(d) == DaysBefore(d.year, d.month) + d.day

\* The day of the week of 1 January of year y: 1 is Monday, 7 is Sunday.
FirstWeekday(y) ==
    LET n == y - 1
    IN  ((365 * n + (n \div 4) - (n \div 100) + (n \div 400)) % 7) + 1

Weekday(d) == ((FirstWeekday(d.year) - 1 + DayOfYear(d) - 1) % 7) + 1

\* The number of ISO weeks of year y.
WeeksInYear(y) ==
    IF FirstWeekday(y) = 4 \/ (IsLeap(y) /\ FirstWeekday(y) = 3) THEN 53 ELSE 52

\* dt.isocalendar().week: the ISO week number of a date.
IsoWeek(d) ==
    LET w == (DayOfYear(d) - Weekday(d) + 10) \div 7
    IN  IF w < 1 THEN WeeksInYear(d.year - 1)
        ELSE IF w > WeeksInYear(d.year) THEN 1
        ELSE w

\* The order times of the trades given to a Performance: days around the
\* turn of the year 2024 and at its start.
Date(y, m, d) == [year |-> y, month |-> m, day |-> d]
TradeDates ==
    { Date(2024, 1, 1), Date(2024, 1, 2), Date(2024, 12, 29), Date(2024, 12, 30),
      Date(2025, 1, 1), Date(2025, 1, 6) }

\* The results of the trades: a loss of a pip, nothing, a profit of a pip.
TradeResults == {-Scale, 0, Scale}

\* The table given to a Performance: at most MaxTrades settled trades.
Trades == [order_time : TradeDates, result : TradeResults]
Tables == UNION { [1 .. n -> Trades] : n \in 0 .. MaxTrades }

\* The parameters of a Performance: their profit and loss are reported.
PerformanceParameters ==
    { p \in Parameters : p.position_count = 1 /\ ~p.trail_stop /\ ~p.reverse_order }

\* A float that is a number, and the float that is not.
Float(v) == [nan |-> FALSE, value |-> v]
NaN == [nan |-> TRUE, value |-> 0]

\* round(num / den, 0) for num >= 0 and den > 0: round half to even.
Round0(num, den) ==
    LET q == num \div den
        r == num % den
    IN  IF 2 * r > den \/ (2 * r = den /\ q % 2 = 1) THEN q + 1 ELSE q

\* round((profit_count / total_count) * 100, 0): the counts are numpy
\* integers, whose quotient 0 / 0 is nan, and round keeps nan.
ProfitRate(profit_count, total_count) ==
    IF total_count = 0 THEN NaN ELSE Float(Round0(100 * profit_count, total_count))

\* Faulty variant of the selection of the wins: > in place of >=.
IsProfitStrict(result) == result > 0

\* self.df['result'] >= 0, the winning trades; the others are < 0.
IsProfit(result) == result >= 0

\* The rows of a table that win, and those that lose.
ProfitRows(t) == { i \in 1 .. Len(t) : IsProfit(t[i].result) }
LossRows(t) == { i \in 1 .. Len(t) : t[i].result < 0 }

\* The sum of the results of the rows S of a table.
RECURSIVE SumResults(_, _)
SumResults(t, S) ==
    IF S = {} THEN 0
    ELSE LET i == CHOOSE x \in S : TRUE
         IN  t[i].result + SumResults(t, S \ {i})

\* The columns Performance.__init__ adds to the table.
AddColumns(t) ==
    [i \in 1 .. Len(t) |->
        [order_time |-> t[i].order_time,
         result     |-> t[i].result,
         year       |-> t[i].order_time.year,
         month      |-> t[i].order_time.month,
         week       |-> IsoWeek(t[i].order_time),
         day        |-> t[i].order_time.day]]

\* The key of a row under groupby(group_list).
GroupKey(row, group_list) == [k \in 1 .. Len(group_list) |-> row[group_list[k]]]

\* The rows S of a table whose key is key.
GroupRows(t, S, group_list, key) == { i \in S : GroupKey(t[i], group_list) = key }

\* The keys of the rows S of a table.
GroupKeys(t, S, group_list) == { GroupKey(t[i], group_list) : i \in S }

\* Performance.__detail: the counts of the groups of the winning and of the
\* losing rows, merged over the keys of either with 0 for a missing count,
\* their total and rate, merged with the sums of the groups of all rows.
Detail(t, group_list) ==
    LET all_rows     == 1 .. Len(t)
        profit_keys  == GroupKeys(t, ProfitRows(t), group_list)
        loss_keys    == GroupKeys(t, LossRows(t), group_list)
        sum_keys     == GroupKeys(t, all_rows, group_list)
        profit_count(key) ==
            IF key \in profit_keys
            THEN Cardinality(GroupRows(t, ProfitRows(t), group_list, key))
            ELSE 0
        loss_count(key) ==
            IF key \in loss_keys
            THEN Cardinality(GroupRows(t, LossRows(t), group_list, key))
            ELSE 0
        counted(key) == key \in profit_keys \cup loss_keys
        total_count(key) == IF counted(key) THEN profit_count(key) + loss_count(key) ELSE 0
        profit_rate(key) ==
            IF counted(key)
            THEN LET rate == ProfitRate(profit_count(key), total_count(key))
                 IN  IF rate.nan THEN Float(0) ELSE rate
            ELSE Float(0)
    IN  { [key          |-> key,
           result       |-> SumResults(t, GroupRows(t, all_rows, group_list, key)),
           profit_count |-> profit_count(key),
           loss_count   |-> loss_count(key),
           total_count  |-> total_count(key),
           profit_rate  |-> profit_rate(key)] :
          key \in sum_keys \cup profit_keys \cup loss_keys }

\* Performance.performance: the report over the whole table and its details.
Performance(t, p) ==
    LET profit_count == Cardinality(ProfitRows(t))
        loss_count   == Cardinality(LossRows(t))
        total_count  == profit_count + loss_count
    IN  [total_count  |-> total_count,
         profit_count |-> profit_count,
         loss_count   |-> loss_count,
         profit_rate  |-> ProfitRate(profit_count, total_count),
         result       |-> SumResults(t, 1 .. Len(t)),
         profit       |-> p.profit,
         loss         |-> p.loss,
         detail       |-> [year  |-> Detail(t, <<"year">>),
                           month |-> Detail(t, <<"year", "month">>),
                           week  |-> Detail(t, <<"year", "week">>),
                           day   |-> Detail(t, <<"year", "month", "day">>)]]

\* A table of settled trades and a parameter, before a Performance is made.
InitPerformance ==
    /\ table \in Tables
    /\ parameter \in PerformanceParameters
    /\ report = None
    /\ ppc = "new"
    /\ NoRun
    /\ NoPair
    /\ NoCall

\* Performance(df, parameter)
NewPerformance ==
    /\ ppc = "new"
    /\ table' = AddColumns(table)
    /\ ppc' = "ready"
    /\ UNCHANGED <<report, runvars, pairvars, callvars>>

\* performance()
CallPerformance ==
    /\ ppc = "ready"
    /\ report' = Some(Performance(table, parameter))
    /\ ppc' = "reported"
    /\ UNCHANGED <<table, runvars, pairvars, callvars>>

NextPerformance == NewPerformance \/ CallPerformance

SpecPerformance == InitPerformance /\ [][NextPerformance]_vars

----------------------------------------------------------------------------
\* utils.py.  A call ends by a return or by an exception.

Return(v) == [raised |-> FALSE, error |-> "", value |-> v]
Raise(e) == [raised |-> TRUE, error |-> e, value |-> <<>>]

\* The single-run variables of a state in which only a call is observed.
IdleParameter ==
    CHOOSE p \in Parameters :
        p.position_count = 1 /\ p.loss = 1 /\ ~p.trail_stop /\ ~p.reverse_order

\* range(start, stop, step) for step > 0, as a sequence.
RECURSIVE PyRange(_, _, _)
PyRange(start, stop, step) ==
    IF start >= stop THEN <<>>
    ELSE <<start>> \o PyRange(start + step, stop, step)

\* itertools.product(xs, ys) as a list: the pairs in the order of two
\* nested loops.
RECURSIVE Product(_, _)
Product(xs, ys) ==
    IF xs = <<>> THEN <<>>
    ELSE [k \in 1 .. Len(ys) |-> <<Head(xs), ys[k]>>] \o Product(Tail(xs), ys)

\* create_profit_loss: range() raises ValueError for a step of zero.
CreateProfitLoss(min_value, max_value, increase) ==
    IF increase = 0 THEN Raise("ValueError")
    ELSE LET profit_loss == PyRange(min_value, max_value + increase, increase)
         IN  Return(Product(profit_loss, profit_loss))

\* The columns of the row given to the direction function, and the values
\* of a row.
IndicatorColumns == <<"rci", "diff">>
IndicatorValues == -2 .. 2

\* The ask and bid ranges of a column: rising, falling, and overlapping.
ValueRanges ==
    { [ask |-> <<0, 2>>, bid |-> <<0, -2>>],
      [ask |-> <<-2, 0>>, bid |-> <<2, 0>>],
      [ask |-> <<-1, 2>>, bid |-> <<1, -2>>] }

\* kwargs['ranges']: a dict, as the sequence of its items in their order.
RangeItems == [column : {"rci", "diff", "absent"}, ranges : ValueRanges]
RangeDicts ==
    { d \in UNION { [1 .. n -> RangeItems] : n \in 0 .. MaxColumns } :
        \A i, j \in 1 .. Len(d) : d[i].column = d[j].column => i = j }

\* Faulty variant of the vote of a column: the ask range is tested last.
VoteAskLast(val, v) ==
    IF v.ask[1] < val /\ val <= v.ask[2] THEN ASK
    ELSE IF v.bid[1] > val /\ val >= v.bid[2] THEN BID
    ELSE ZERO

\* The direction of one column: the ask range is tested first and the bid
\* range after it, so the bid range decides where both hold.
Vote(val, v) ==
    IF v.bid[1] > val /\ val >= v.bid[2] THEN BID
    ELSE IF v.ask[1] < val /\ val <= v.ask[2] THEN ASK
    ELSE ZERO

\* The sum of a sequence of integers.
RECURSIVE Sum(_)
Sum(s) == IF s = <<>> THEN 0 ELSE Head(s) + Sum(Tail(s))

\* direction_by_value_range: columns.get_loc raises KeyError for a key of
\* ranges that is not a column; the result is the direction and the log.
DirectionByValueRange(row, columns, ranges) ==
    IF \E k \in 1 .. Len(ranges) : GetLoc(columns, ranges[k].column) = None
    THEN Raise("KeyError")
    ELSE LET val(k)     == row[Val(GetLoc(columns, ranges[k].column)) + 1]
             directions == [k \in 1 .. Len(ranges) |-> Vote(val(k), ranges[k].ranges)]
             log        == [k \in 1 .. Len(ranges) |->
                              [column |-> ranges[k].column, val |-> val(k),
                               ranges |-> ranges[k].ranges, direction |-> directions[k]]]
             result     == IF Abs(Sum(directions)) = Len(directions)
                           THEN (IF Sum(directions) > 0 THEN ASK
                                 ELSE IF Sum(directions) < 0 THEN BID
                                 ELSE ZERO)
                           ELSE ZERO
         IN  Return(<<result, log>>)

\* np.linspace(min, max, split) rounded, for the integer cases: split
\* equally spaced values from min to max.
Linspace(min, max, split) ==
    IF split = 1 THEN <<min>>
    ELSE [k \in 1 .. split |-> min + ((k - 1) * (max - min)) \div (split - 1)]

\* The ranges of one column in create_direction_ranges.
ColumnRanges(param, range_calculation) ==
    IF range_calculation
    THEN LET arange_list == Linspace(param.range.min, param.range.max, param.range.split)
             n           == Len(arange_list)
         IN  [i \in 1 .. n - 1 |->
                [ask |-> <<arange_list[i], arange_list[i + 1]>>,
                 bid |-> <<arange_list[n - i + 1], arange_list[n - i]>>]]
    ELSE <<param.value>>

\* one_direction_ranges .. four_direction_ranges: the nested loops over the
\* ranges of the columns from the k-th on; each result is the dict of one
\* range per column, as the sequence of its items.
RECURSIVE NestedRanges(_, _)
NestedRanges(cols, k) ==
    IF k > Len(cols) THEN << <<>> >>
    ELSE LET rest == NestedRanges(cols, k + 1)
             own  == cols[k].ranges
             pairs == Product(own, rest)
         IN  [n \in 1 .. Len(pairs) |->
                <<[column |-> cols[k].column, ranges |-> pairs[n][1]]>> \o pairs[n][2]]

\* create_direction_ranges: [] for no column and for more than four.
CreateDirectionRanges(direction_range) ==
    LET cols == [k \in 1 .. Len(direction_range.ranges) |->
                   [column |-> direction_range.ranges[k].column,
                    ranges |-> ColumnRanges(direction_range.ranges[k].param,
                                            direction_range.range_calculation)]]
    IN  IF Len(cols) \in 1 .. 4 THEN NestedRanges(cols, 1) ELSE <<>>

\* The fields of dataclass Parameter.
ParameterFields ==
    { "symbol", "timeframes", "technical_indicator", "direction_function",
      "direction_parameter", "trade_start_hour", "trade_end_hour", "position_count",
      "profit", "loss", "trail_stop", "spread_threshold", "pip", "reverse_order",
      "time_column", "open_column", "high_column", "low_column", "close_column",
      "spread_column", "technical_column" }

\* Parameter(**kwargs): the generated __init__ raises TypeError for a
\* keyword that is not a field.
NewParameter(kwargs) ==
    IF DOMAIN kwargs \subseteq ParameterFields THEN Return(kwargs) ELSE Raise("TypeError")

\* PIPS of mt5.py: the pip size of each symbol, in points.
Symbols == {"USDJPY"}
Pips == [s \in Symbols |-> 1]

\* The keywords create_backtest_parameters_from_json passes to Parameter.
ParameterKeywords(symbol, json_data, direction_function, direction_range, pair) ==
    [symbol              |-> symbol,
     timeframes          |-> json_data.timeframes,
     technical_indicator |-> json_data.technical_indicator,
     direction_function  |-> direction_function,
     direction_parameter |-> direction_range,
     start               |-> json_data.start,
     end                 |-> json_data.end,
     position_count      |-> json_data.position_count,
     profit              |-> pair[1],
     loss                |-> pair[2],
     trail_stop          |-> json_data.trail_stop,
     spread_threshold    |-> json_data.spread_threshold,
     pip                 |-> Pips[symbol],
     reverse_order       |-> json_data.reverse_order,
     time_column         |-> json_data.columns.time,
     open_column         |-> json_data.columns.open,
     high_column         |-> json_data.columns.high,
     low_column          |-> json_data.columns.low,
     close_column        |-> json_data.columns.close,
     spread_column       |-> json_data.columns.spread,
     technical_column    |-> json_data.columns.technical]

\* create_backtest_parameters_from_json: the two nested loops; the first
\* construction that raises ends the call.
CreateBacktestParametersFromJson(symbol, direction_parameter, json_data, direction_function) ==
    LET profit_loss == CreateProfitLoss(json_data.profit_loss.min,
                                        json_data.profit_loss.max,
                                        json_data.profit_loss.increase)
    IN  IF profit_loss.raised THEN profit_loss
        ELSE LET direction_ranges == CreateDirectionRanges(direction_parameter)
                 combos == Product(direction_ranges, profit_loss.value)
                 made   == [n \in 1 .. Len(combos) |->
                              NewParameter(ParameterKeywords(
                                  symbol, json_data, direction_function,
                                  [ranges |-> combos[n][1]], combos[n][2]))]
             IN  IF \E n \in 1 .. Len(made) : made[n].raised
                 THEN made[CHOOSE n \in 1 .. Len(made) :
                             made[n].raised /\ \A m \in 1 .. n - 1 : ~made[m].raised]
                 ELSE Return([n \in 1 .. Len(made) |-> made[n].value])

\* The arguments of the calls explored.
ProfitLossArguments ==
    [min : 1 .. MaxValue, max : 1 .. MaxValue, increase : 0 .. MaxIncrease]

ColumnParameters ==
    [column : {"rci", "diff"},
     param  : [value : { v \in ValueRanges : v.ask = <<0, 2>> },
               range : [min : {0}, max : {2}, split : {1, 2, 3}]]]

DirectionParameters ==
    [range_calculation : BOOLEAN,
     ranges : { d \in UNION { [1 .. n -> ColumnParameters] : n \in 0 .. MaxColumns } :
                  \A i, j \in 1 .. Len(d) : d[i].column = d[j].column => i = j }]

JsonData(profit_loss) ==
    [timeframes |-> <<"H1">>, technical_indicator |-> "rci", start |-> 0, end |-> 1,
     position_count |-> 1, trail_stop |-> FALSE, spread_threshold |-> 1,
     reverse_order |-> FALSE, profit_loss |-> profit_loss,
     columns |-> [time |-> "time", open |-> "open", high |-> "high", low |-> "low",
                  close |-> "close", spread |-> "spread", technical |-> "close"]]

UtilCalls ==
    { [fn |-> "create_profit_loss", args |-> a] : a \in ProfitLossArguments }
    \cup
    { [fn |-> "direction_by_value_range",
       args |-> [data |-> d, columns |-> IndicatorColumns, ranges |-> r]] :
      d \in [1 .. Len(IndicatorColumns) -> IndicatorValues], r \in RangeDicts }
    \cup
    { [fn |-> "create_backtest_parameters_from_json",
       args |-> [symbol |-> s, direction_parameter |-> dp, json_data |-> JsonData(a),
                 direction_function |-> "direction_by_value_range"]] :
      s \in Symbols, dp \in DirectionParameters,
      a \in { x \in ProfitLossArguments : x.increase > 0 /\ x.max <= 2 } }

\* A call of a function of utils.py is about to be made.
InitUtils ==
    /\ call \in UtilCalls
    /\ ret = None
    /\ sent = <<>>
    /\ parameter = IdleParameter
    /\ NoRun
    /\ NoPair
    /\ NoPerformance

CallCreateProfitLoss ==
    /\ ret = None
    /\ call.fn = "create_profit_loss"
    /\ ret' = Some(CreateProfitLoss(call.args.min, call.args.max, call.args.increase))
    /\ UNCHANGED <<call, sent, runvars, pairvars, perfvars>>

CallDirectionByValueRange ==
    /\ ret = None
    /\ call.fn = "direction_by_value_range"
    /\ ret' = Some(DirectionByValueRange(call.args.data, call.args.columns,
                                         call.args.ranges))
    /\ UNCHANGED <<call, sent, runvars, pairvars, perfvars>>

CallCreateBacktestParametersFromJson ==
    /\ ret = None
    /\ call.fn = "create_backtest_parameters_from_json"
    /\ ret' = Some(CreateBacktestParametersFromJson(
                      call.args.symbol, call.args.direction_parameter,
                      call.args.json_data, call.args.direction_function))
    /\ UNCHANGED <<call, sent, runvars, pairvars, perfvars>>

NextUtils ==
    \/ CallCreateProfitLoss
    \/ CallDirectionByValueRange
    \/ CallCreateBacktestParametersFromJson

SpecUtils == InitUtils /\ [][NextUtils]_vars

----------------------------------------------------------------------------
\* mt5.py: the broker adapter.  The broker is MetaTrader5: its answer to
\* order_send is any response, or no response object at all.

Comments == {"Request executed", "Market closed", "Requote"}
Responses == { Some([comment |-> c, order |-> 1]) : c \in Comments } \cup {None}

\* str.upper() on the symbols explored.
Upper(symbol) == IF symbol = "usdjpy" THEN "USDJPY" ELSE symbol

\* The positions the broker holds: type 0 is a buy, type 1 a sell.
BrokerPositions ==
    UNION { [1 .. n -> [ticket : {1, 2}, type : {0, 1}, price_open : {10}]] :
            n \in 0 .. MaxPositions }

\* SelectSeq on the tickets of positions.
RECURSIVE WithTicket(_, _)
WithTicket(positions, ticket) ==
    IF positions = <<>> THEN <<>>
    ELSE (IF Head(positions).ticket = ticket THEN <<Head(positions)>> ELSE <<>>)
         \o WithTicket(Tail(positions), ticket)

\* get_positions(ticket=ticket): a ticket of 0 is false and selects all
\* the positions.
GetPositions(positions, ticket) ==
    IF ticket # 0 THEN WithTicket(positions, ticket) ELSE positions

\* Faulty variant of the end of a send: the response is returned whatever
\* its comment.
ReplyUnchecked(response) ==
    IF response = None THEN Raise("AttributeError")
    ELSE Return(response)

\* The end of send_order and of send_profit_and_loss: _asdict() of no
\* response raises AttributeError, a comment other than 'Request executed'
\* raises RequestError, and the response is returned otherwise.
Reply(response) ==
    IF response = None THEN Raise("AttributeError")
    ELSE IF Val(response).comment # "Request executed" THEN Raise("RequestError")
    ELSE Return(response)

\* The request of send_order.
OrderRequest(args, order_type) ==
    [action |-> "TRADE_ACTION_DEAL", symbol |-> Upper(args.symbol), volume |-> args.lot,
     deviation |-> args.deviation, type |-> order_type, magic |-> args.magic,
     type_time |-> "ORDER_TIME_GTC", type_filling |-> "ORDER_FILLING_IOC"]

\* The request of send_profit_and_loss for a position.
ProfitAndLossRequest(args, position) ==
    LET price == position.price_open
        buy   == position.type = 0
    IN  [action   |-> "TRADE_ACTION_SLTP",
         position |-> args.ticket,
         sl       |-> IF buy THEN price - args.loss * args.pip
                             ELSE price + args.loss * args.pip,
         tp       |-> IF buy THEN price + args.profit * args.pip
                             ELSE price - args.profit * args.pip]

Mt5Calls ==
    { [fn |-> "send_order", positions |-> <<>>,
       args |-> [symbol |-> s, lot |-> 1, direction |-> d, magic |-> 0,
                 deviation |-> 10]] :
      s \in {"usdjpy", "USDJPY"}, d \in -2 .. 2 }
    \cup
    { [fn |-> "send_profit_and_loss", positions |-> ps,
       args |-> [ticket |-> k, profit |-> pr, loss |-> lo, pip |-> 1]] :
      ps \in BrokerPositions, k \in 0 .. 2, pr \in 1 .. 2, lo \in 1 .. 2 }

\* A method of Mt5 is about to be called.
InitMt5 ==
    /\ call \in Mt5Calls
    /\ ret = None
    /\ sent = <<>>
    /\ parameter = IdleParameter
    /\ NoRun
    /\ NoPair
    /\ NoPerformance

\* Mt5.send_order
SendOrder ==
    /\ ret = None
    /\ call.fn = "send_order"
    /\ IF call.args.direction \notin {1, -1}
       THEN /\ ret' = Some(Return(None))
            /\ sent' = sent
       ELSE \E response \in Responses :
              LET order_type == IF call.args.direction = 1 THEN "ORDER_TYPE_BUY"
                                ELSE "ORDER_TYPE_SELL"
              IN  /\ sent' = Append(sent, [request  |-> OrderRequest(call.args, order_type),
                                           response |-> response])
                  /\ ret' = Some(Reply(response))
    /\ UNCHANGED <<call, runvars, pairvars, perfvars>>

\* Mt5.send_profit_and_loss: positions[0] of no position raises IndexError
\* before any request.
SendProfitAndLoss ==
    /\ ret = None
    /\ call.fn = "send_profit_and_loss"
    /\ LET positions == GetPositions(call.positions, call.args.ticket)
       IN  IF positions = <<>>
           THEN /\ ret' = Some(Raise("IndexError"))
                /\ sent' = sent
           ELSE \E response \in Responses :
                  /\ sent' = Append(sent,
                                    [request  |-> ProfitAndLossRequest(call.args, positions[1]),
                                     response |-> response])
                  /\ ret' = Some(Reply(response))
    /\ UNCHANGED <<call, runvars, pairvars, perfvars>>

NextMt5 == SendOrder \/ SendProfitAndLoss

SpecMt5 == InitMt5 /\ [][NextMt5]_vars

----------------------------------------------------------------------------
\* The elements of a list.
Range(list) == { list[i] : i \in 1 .. Len(list) }

\* The open positions and the settled positions.
Open == UNION { Range(orders[d]) : d \in Directions }
Settled == Range(settlements)

\* The positions the step appends to the history.
NewlySettled == { settlements'[j] : j \in (Len(settlements) + 1) .. Len(settlements') }

\* C1: at every step of run(), each direction holds at most position_count
\* open positions.
C1_PositionCap ==
    \A d \in Directions : Len(orders[d]) <= parameter.position_count

\* A call of __order was rejected with two positions open in its direction.
C1_Witness ==
    /\ parameter.position_count = 2
    /\ \E i \in 1 .. Len(calls) :
        /\ ~calls[i].placed
        /\ Len(orders[calls[i].direction]) = 2

\* C2: an open position has result, settlement_price and settlement_time
\* null; a settled one has all three set, by one assignment of result; a
\* step that settles a position sets the three on the bar of that step.
C2_State ==
    /\ \A o \in Open :
        /\ o.result = None
        /\ o.settlement_price = None
        /\ o.settlement_time = None
        /\ o.by = <<>>
    /\ \A o \in Settled :
        /\ o.result # None
        /\ o.settlement_price # None
        /\ o.settlement_time # None
        /\ Len(o.by) = 1

C2_Step ==
    /\ C2_State'
    /\ \A t \in NewlySettled :
        /\ t.settlement_time = Some(idx')
        /\ \E o \in Open : o.id = t.id

C2_SetTogetherOnce == C2_State /\ [][C2_Step]_vars

\* A position has been settled while another one is open.
C2_Witness ==
    /\ Len(settlements) > 0
    /\ Open # {}

\* A step of run() that calls __settlement, and the rows it can have taken:
\* the rows with the columns the step left in data whose settlement is this
\* step.
SettlementStep == pc = "for" /\ pc' = "order"

CandidateRows ==
    LET d == Val(data')
    IN  UNION { UNION { { [time |-> d.time, hour |-> d.hour, open |-> o, high |-> hi,
                           low |-> lo, close |-> d.close, spread |-> d.spread] :
                          o \in lo .. hi } :
                        hi \in d.close .. MaxPrice } :
                lo \in 0 .. d.close }

IsStepRow(row) ==
    DoSettlement(orders, settlements, row, AllFlag(row, parameter), parameter)
        = [orders |-> orders', settlements |-> settlements']

\* C3: on a bar without forced closure, a position whose stop-loss and
\* take-profit conditions both hold is settled by the loss rule, at the loss
\* rule's price, and never by the profit rule.
C3_Step ==
    (SettlementStep /\ ~AllFlag(Val(data'), parameter)) =>
        \A row \in CandidateRows : \A o \in Open :
            ( /\ LossCondition(o, Settlement(row))
              /\ ProfitCondition(o, Settlement(row))
              /\ IsStepRow(row) )
            => \E t \in NewlySettled :
                /\ t.id = o.id
                /\ t.by = <<"loss">>
                /\ t.settlement_price =
                     Some(IF o.direction = ASK
                          THEN row.low ELSE row.high + row.spread)
                /\ Abs(Val(t.result)) <= Scale * parameter.loss

C3_LossBeforeProfit == [][C3_Step]_vars

\* On a bar without forced closure the loss rule settled a position whose
\* profit price the bar had crossed as well (the close is beyond it).
C3_Witness ==
    /\ pc = "order"
    /\ ~AllFlag(Val(data), parameter)
    /\ \E t \in Settled :
        /\ t.settlement_time = Some(idx)
        /\ t.by = <<"loss">>
        /\ IF t.direction = ASK
           THEN t.profit_price < Val(data).close
           ELSE t.profit_price > Val(data).close + Val(data).spread

\* C4: a settlement with the force-close flag settles every open position
\* on that bar at the mark-to-open price and result, whatever its stop-loss
\* and take-profit conditions; the result is neither clamped nor replaced.
C4_Step ==
    (SettlementStep /\ AllFlag(Val(data'), parameter) /\ Open # {}) =>
        \A row \in CandidateRows :
            IsStepRow(row) =>
                /\ \A d \in Directions : orders'[d] = <<>>
                /\ \A o \in Open :
                    \E t \in NewlySettled :
                        LET price == IF o.direction = ASK
                                     THEN row.open ELSE row.open + row.spread
                            delta == IF o.direction = ASK
                                     THEN price - o.order_price
                                     ELSE o.order_price - price
                        IN  /\ t.id = o.id
                            /\ t.by = <<"all">>
                            /\ t.settlement_price = Some(price)
                            /\ t.result = Some(Round2(delta, parameter.pip))

C4_ForcedClosureOverrides == [][C4_Step]_vars

\* A forced closure settled a buy whose stop the bar had crossed, with a
\* loss larger than the configured one.
C4_Witness ==
    /\ pc = "order"
    /\ AllFlag(Val(data), parameter)
    /\ \E t \in Settled :
        /\ t.settlement_time = Some(idx)
        /\ t.by = <<"all">>
        /\ t.direction = ASK
        /\ t.loss_price >= Val(data).close
        /\ Val(t.result) < -(Scale * parameter.loss)

\* C5: a position settled by the loss rule has |result| <= loss, one settled
\* by the profit rule has result = profit.
C5_ResultBounds ==
    \A t \in Settled :
        /\ t.by = <<"loss">> => Abs(Val(t.result)) <= Scale * parameter.loss
        /\ t.by = <<"profit">> => t.result = Some(Scale * parameter.profit)

\* With trailing stop, the loss rule settled a buy whose stop had been
\* trailed, and the profit rule settled another position.
C5_Witness ==
    /\ parameter.trail_stop
    /\ \E t \in Settled :
        /\ t.by = <<"loss">>
        /\ t.direction = ASK
        /\ t.loss_price > t.order_price - parameter.loss * parameter.pip
    /\ \E t \in Settled : t.by = <<"profit">>

\* C6: with trail_stop, no step lowers the loss_price of an open buy or
\* raises the loss_price of an open sell.
C6_Step ==
    parameter.trail_stop =>
        \A o \in Open : \A n \in Open' :
            n.id = o.id =>
                IF o.direction = ASK
                THEN n.loss_price >= o.loss_price
                ELSE n.loss_price <= o.loss_price

C6_TrailMonotone == [][C6_Step]_vars

\* An open buy has gone through two settlements and its stop has been
\* trailed above the stop it was opened with.
C6_Witness ==
    /\ parameter.trail_stop
    /\ \E o \in Open :
        /\ o.direction = ASK
        /\ o.order_time + 2 <= idx
        /\ o.loss_price > o.order_price - parameter.loss * parameter.pip

\* C7: a settled position was settled on a bar later than the bar that
\* opened it, and an open position was opened on a bar processed so far.
C7_SettledAfterOpened ==
    /\ \A t \in Settled : Val(t.settlement_time) > t.order_time
    /\ \A o \in Open : o.order_time <= idx

\* A bar settled a position and opened another one, which is still open
\* after the bar.
C7_Witness ==
    /\ pc = "for"
    /\ \E o \in Open : o.order_time = idx
    /\ \E t \in Settled : t.settlement_time = Some(idx)

\* C8: no position is both open and settled, none is twice in the history
\* or in the order book, and the positions opened so far are the open ones
\* and the settled ones.
Positions == settlements \o orders[ASK] \o orders[BID]

C8_NoDuplication ==
    /\ Len(Positions) = opened
    /\ \A i \in 1 .. Len(Positions) : \A j \in 1 .. Len(Positions) :
        Positions[i].id = Positions[j].id => i = j

\* A position was removed from the middle of its direction's list: it is
\* settled and a position of its direction opened after it is still open.
C8_Witness ==
    \E t \in Settled : \E o \in Open :
        /\ o.direction = t.direction
        /\ o.id > t.id
        /\ Val(t.settlement_time) > o.order_time

\* C9: every step leaves the history it found as a prefix of the history it
\* leaves, field by field.
C9_Step ==
    /\ Len(settlements') >= Len(settlements)
    /\ SubSeq(settlements', 1, Len(settlements)) = settlements

C9_AppendOnly == [][C9_Step]_vars

\* The history was extended on two different bars.
C9_Witness ==
    /\ Len(settlements) >= 2
    /\ settlements[1].settlement_time # settlements[Len(settlements)].settlement_time

\* C10: a call of __order in a direction that holds position_count open
\* positions or more changes neither the order book nor the history and
\* raises nothing.
C10_Step ==
    (pc = "order" /\ Len(calls') > 0) =>
        LET d1 == calls'[1].direction
        IN  Len(orders[d1]) >= parameter.position_count =>
                /\ orders'[d1] = orders[d1]
                /\ settlements' = settlements
                /\ pc' = "for"
                /\ Len(calls') = 1 => (orders' = orders /\ opened' = opened)
                /\ ( /\ Len(calls') = 2
                     /\ Len(orders[calls'[2].direction]) >= parameter.position_count )
                   => (orders' = orders /\ opened' = opened)

C10_RejectedOrderNoOp == [][C10_Step]_vars

\* run() called __order once on the last bar, with the direction's single
\* slot taken, and the call placed nothing.
C10_Witness ==
    /\ pc = "for"
    /\ parameter.position_count = 1
    /\ Len(calls) = 1
    /\ ~calls[1].placed
    /\ Len(orders[calls[1].direction]) = 1

\* The positions the step opens, and the steps that run the rest of a loop
\* body after its call of __settlement.
NewlyOpened == { o \in Open' : o.id > opened }
OrderStep == pc = "order" /\ pc' # "order"

\* The step evaluated every open position on the row: the position is in
\* the history as the rules settled it, or open as the rules left it.
EvaluatedOn(row) ==
    \A o \in Open :
        LET e == Evaluate(o, Settlement(row), AllFlag(row, parameter), parameter)
        IN  IF e.result # None
            THEN Settle(e, row.time) \in NewlySettled
            ELSE e \in Open'

\* C11: on a bar whose spread is greater than spread_threshold every open
\* position is evaluated for settlement, no position is opened and the
\* direction function is not called; on a bar of the session whose spread
\* equals spread_threshold the direction function is called.
C11_Step ==
    /\ (SettlementStep /\ Val(data').spread > parameter.spread_threshold) =>
            \E row \in CandidateRows : EvaluatedOn(row)
    /\ (OrderStep /\ Val(data).spread > parameter.spread_threshold) =>
            /\ NewlyOpened = {}
            /\ orders' = orders
            /\ opened' = opened
            /\ asked' = 0
            /\ calls' = <<>>
            /\ pc' = "for"
    /\ ( /\ OrderStep
         /\ Val(data).spread = parameter.spread_threshold
         /\ parameter.trade_start_hour <= Val(data).hour
         /\ Val(data).hour < parameter.trade_end_hour ) =>
            asked' = 1

C11_SpreadGate == [][C11_Step]_vars

\* A bar skipped at the spread gate settled a position and left open a
\* position that was opened on a bar whose spread equals the threshold.
C11_Witness ==
    /\ pc = "for"
    /\ skipped = "spread"
    /\ asked = 0
    /\ \E t \in Settled : t.settlement_time = Some(idx)
    /\ \E o \in Open : o.spread = parameter.spread_threshold

\* C12: every position, open or settled, has the spread of a bar that
\* passed the spread gate; a step opens positions and calls the direction
\* function only on a bar with trade_start_hour <= hour < trade_end_hour and
\* spread <= spread_threshold, the positions carry the time and spread of
\* that bar, and the direction function is called at most once per bar.
C12_State ==
    /\ \A o \in Open \cup Settled : o.spread <= parameter.spread_threshold
    /\ asked <= 1

C12_Step ==
    /\ C12_State'
    /\ IF OrderStep
       THEN (NewlyOpened # {} \/ asked' # asked) =>
                /\ parameter.trade_start_hour <= Val(data).hour
                /\ Val(data).hour < parameter.trade_end_hour
                /\ Val(data).spread <= parameter.spread_threshold
                /\ asked' = 1
                /\ \A o \in NewlyOpened :
                    /\ o.order_time = Val(data).time
                    /\ o.spread = Val(data).spread
       ELSE /\ NewlyOpened = {}
            /\ asked' \in {asked, 0}

C12_SessionOnly == C12_State /\ [][C12_Step]_vars

\* The direction function was called on the last bar, which opened a
\* position, and a position opened on an earlier bar is settled.
C12_Witness ==
    /\ pc = "for"
    /\ asked = 1
    /\ \E o \in Open : o.order_time = idx
    /\ \E t \in Settled : t.order_time < idx

\* C13: __settlement has been called once for every bar taken, whatever the
\* bar's hour and spread; the flag of the call is true if and only if the
\* bar's hour is >= trade_end_hour, the book and the history after the call
\* are those of a settlement with that flag, and no other step settles.
C13_State ==
    /\ nsettle = idx
    /\ pc = "order" => flag = Some(Val(data).hour >= parameter.trade_end_hour)

C13_Step ==
    /\ C13_State'
    /\ nsettle' \in {nsettle, nsettle + 1}
    /\ IF SettlementStep
       THEN /\ nsettle' = nsettle + 1
            /\ \E row \in CandidateRows :
                   DoSettlement(orders, settlements, row,
                                row.hour >= parameter.trade_end_hour, parameter)
                       = [orders |-> orders', settlements |-> settlements']
       ELSE /\ nsettle' = nsettle
            /\ settlements' = settlements

C13_SettlementEveryBar == C13_State /\ [][C13_Step]_vars

\* The second call of __settlement, on a bar past the end of the session
\* with too large a spread, was made with the flag and settled a position.
C13_Witness ==
    /\ pc = "order"
    /\ nsettle >= 2
    /\ flag = Some(TRUE)
    /\ Val(data).spread > parameter.spread_threshold
    /\ \E t \in Settled : t.settlement_time = Some(idx)

\* C14 as stated: a bar that force-closed an open position can open a new
\* position: after such a settlement, on a bar with an acceptable spread,
\* the rest of the loop body can place an order.
C14_ForceCloseAndOpen ==
    ( /\ pc = "order"
      /\ flag = Some(TRUE)
      /\ Val(data).spread <= parameter.spread_threshold
      /\ opened < MaxOpened
      /\ \E t \in Settled : t.settlement_time = Some(idx) /\ t.by = <<"all">> )
    => ENABLED (RunOrder /\ opened' > opened)

\* C14, amended: no position is opened on a bar that force-closed a
\* position, and the loop body of a bar whose settlement had the flag opens
\* no position and does not call the direction function.
C14_State ==
    \A t \in Settled :
        t.by = <<"all">> =>
            \A o \in Open \cup Settled : o.order_time # Val(t.settlement_time)

C14_Step ==
    /\ C14_State'
    /\ (OrderStep /\ flag = Some(TRUE)) =>
            /\ NewlyOpened = {}
            /\ asked' = asked
            /\ skipped' \in {"spread", "session"}

C14_NoOpenOnForcedClosure == C14_State /\ [][C14_Step]_vars

\* A bar with an acceptable spread force-closed a position and its loop
\* body ended at the session gate with an empty book.
C14_Witness ==
    /\ pc = "for"
    /\ skipped = "session"
    /\ Open = {}
    /\ \E t \in Settled : t.settlement_time = Some(idx) /\ t.by = <<"all">>

\* C15 as stated: with reverse_order, a loop body that opens a position in
\* the direction the direction function returned opens a position in the
\* opposite direction with the same order time.
C15_OriginalStep ==
    (OrderStep /\ parameter.reverse_order /\ Len(calls') > 0) =>
        (calls'[1].placed =>
            \E o \in NewlyOpened :
                /\ o.direction = Reverse(calls'[1].direction)
                /\ o.order_time = Val(data).time)

C15_ReverseAlwaysOpens == [][C15_OriginalStep]_vars

\* C15, amended: with reverse_order, a loop body that calls __order in the
\* direction the direction function returned calls it once more, in the
\* opposite direction, on the same bar; that call opens a position, with the
\* time and spread of the bar and the entry price of its direction from the
\* bar's close, unless the opposite direction already holds position_count
\* open positions, in which case it opens nothing.
C15_Step ==
    (OrderStep /\ parameter.reverse_order /\ Len(calls') > 0) =>
        LET rev  == Reverse(calls'[1].direction)
            full == Len(orders[rev]) >= parameter.position_count
            new  == { o \in NewlyOpened : o.direction = rev }
        IN  /\ Len(calls') = 2
            /\ calls'[2].direction = rev
            /\ calls'[2].placed = ~full
            /\ full => new = {} /\ orders'[rev] = orders[rev]
            /\ ~full =>
                /\ Cardinality(new) = 1
                /\ \A o \in new :
                    /\ o.order_time = Val(data).time
                    /\ o.spread = Val(data).spread
                    /\ o.order_price =
                         IF rev = ASK
                         THEN Val(data).close + Val(data).spread
                         ELSE Val(data).close
                    /\ orders'[rev] = Append(orders[rev], o)

C15_ReverseOrder == [][C15_Step]_vars

\* With reverse_order, the last loop body opened a position in each
\* direction, both with the time of the bar.
C15_Witness ==
    /\ pc = "for"
    /\ parameter.reverse_order
    /\ Len(calls) = 2
    /\ calls[1].placed /\ calls[2].placed
    /\ \A d \in Directions : \E o \in Range(orders[d]) : o.order_time = idx

\* C16 as stated: a newly opened buy is entered at close + spread * pip * 0.1
\* and a newly opened sell at close (the equation of the buy is multiplied
\* by ten).
C16_OriginalStep ==
    OrderStep =>
        \A o \in NewlyOpened :
            IF o.direction = ASK
            THEN 10 * (o.order_price - Val(data).close)
                     = Val(data).spread * parameter.pip
            ELSE o.order_price = Val(data).close

C16_EntryTenthOfPip == [][C16_OriginalStep]_vars

\* C16, amended: a newly opened buy is entered at close + spread, the value
\* of the bar's spread column as it is, and a newly opened sell at close.
C16_Step ==
    OrderStep =>
        \A o \in NewlyOpened :
            /\ o.order_time = Val(data).time
            /\ o.order_price =
                 IF o.direction = ASK
                 THEN Val(data).close + Val(data).spread
                 ELSE Val(data).close

C16_EntryPrice == [][C16_Step]_vars

\* A buy and a sell were opened on the last bar, whose spread is not zero:
\* their entry prices differ by the spread.
C16_Witness ==
    /\ pc = "for"
    /\ \E a \in Range(orders[ASK]) : \E b \in Range(orders[BID]) :
        /\ a.order_time = idx
        /\ b.order_time = idx
        /\ a.spread > 0
        /\ a.order_price = b.order_price + a.spread

\* C17: a newly opened buy has profit_price = entry + profit * pip and
\* loss_price = entry - loss * pip, a newly opened sell has profit_price =
\* entry - profit * pip and loss_price = entry + loss * pip; the position is
\* the last element of its direction's list, the rest of which is as it
\* was, and its settlement_time, settlement_price and result are null.
C17_Step ==
    OrderStep =>
        /\ \A o \in NewlyOpened :
            /\ IF o.direction = ASK
               THEN /\ o.profit_price = o.order_price + parameter.profit * parameter.pip
                    /\ o.loss_price = o.order_price - parameter.loss * parameter.pip
               ELSE /\ o.profit_price = o.order_price - parameter.profit * parameter.pip
                    /\ o.loss_price = o.order_price + parameter.loss * parameter.pip
            /\ o.settlement_time = None
            /\ o.settlement_price = None
            /\ o.result = None
            /\ orders'[o.direction] = Append(orders[o.direction], o)
        /\ \A d \in Directions :
            \/ orders'[d] = orders[d]
            \/ \E o \in NewlyOpened : o.direction = d

C17_NewPosition == [][C17_Step]_vars

\* The last loop body appended a position behind a position opened on an
\* earlier bar.
C17_Witness ==
    /\ pc = "for"
    /\ \E d \in Directions :
        /\ Len(orders[d]) = 2
        /\ orders[d][1].order_time < idx
        /\ orders[d][2].order_time = idx
        /\ orders[d][2].result = None

\* C18: with trail_stop, a position that a settlement leaves open has, for
\* a buy, loss_price = high - loss * pip if its loss_price was below that
\* price, for a sell, loss_price = low + loss * pip if its loss_price was
\* above that price, and its loss_price unchanged otherwise; the position
\* is not closed by the trailing.
C18_Step ==
    (SettlementStep /\ parameter.trail_stop) =>
        \A row \in CandidateRows :
            IsStepRow(row) =>
                \A o \in Open : \A n \in Open' :
                    n.id = o.id =>
                        LET loss_pip == parameter.loss * parameter.pip
                            target   == IF o.direction = ASK
                                        THEN row.high - loss_pip
                                        ELSE row.low + loss_pip
                            moves    == IF o.direction = ASK
                                        THEN o.loss_price < target
                                        ELSE o.loss_price > target
                        IN  /\ n.loss_price = IF moves THEN target ELSE o.loss_price
                            /\ n.result = None

C18_TrailFromHigh == [][C18_Step]_vars

\* What the loss rule has done to the open positions if the bar of the step
\* is row, and the steps on which every bar they can have taken agrees.
C19_OnRow(row) ==
    \A o \in Open :
       LET buy   == o.direction = ASK
           cond  == IF buy
                    THEN o.loss_price >= row.low
                    ELSE o.loss_price <= row.high + row.spread
           price == IF buy THEN row.low ELSE row.high + row.spread
           raw   == IF buy
                    THEN o.loss_price - o.order_price
                    ELSE o.order_price - o.loss_price
           res   == IF Abs(raw) >= parameter.loss * parameter.pip
                    THEN -(Scale * parameter.loss)
                    ELSE Round2(raw, parameter.pip)
       IN  IF cond
           THEN \E t \in NewlySettled :
                   /\ t.id = o.id
                   /\ t.by = <<"loss">>
                   /\ t.settlement_price = Some(price)
                   /\ t.result = Some(res)
                   /\ t.loss_price = o.loss_price
           ELSE /\ \A t \in NewlySettled :
                       t.id = o.id => t.by = <<"profit">>
                /\ \A n \in Open' :
                       n.id = o.id =>
                           /\ n.result = None
                           /\ n.settlement_price = None

C19_Step ==
    (SettlementStep /\ ~AllFlag(Val(data'), parameter)) =>
        \A row \in CandidateRows : C19_OnRow(row) \/ ~IsStepRow(row)

\* C19: on a bar without forced closure, the loss rule settles an open buy
\* if and only if loss_price >= low, at the price low, and an open sell if
\* and only if loss_price <= high + spread, at the price high + spread; the
\* result is (loss_price - order_price) / pip for a buy and (order_price -
\* loss_price) / pip for a sell, or -loss when the absolute value of that is
\* >= loss; a position whose condition does not hold is not settled by the
\* loss rule and, while open, keeps result and settlement_price null.
C19_LossFixed == [][C19_Step]_vars

\* The loss rule settled a buy whose stop had been trailed, on a bar whose
\* low equals the stop, with a result that is not the clamp.
C19_Witness ==
    \E t \in Settled :
        /\ t.by = <<"loss">>
        /\ t.direction = ASK
        /\ t.settlement_price = Some(t.loss_price)
        /\ Val(t.result) > -(Scale * parameter.loss)

\* What the profit rule has done, if the bar of the step is row, to the
\* open positions the loss rule has not settled.
C20_OnRow(row) ==
    \A o \in Open :
        (\A t \in NewlySettled : t.id = o.id => t.by # <<"loss">>) =>
            LET buy   == o.direction = ASK
                cond  == IF buy
                         THEN o.profit_price < row.high
                         ELSE o.profit_price > row.low + row.spread
                price == IF buy THEN row.high ELSE row.low + row.spread
            IN  IF cond
                THEN \E t \in NewlySettled :
                        /\ t.id = o.id
                        /\ t.by = <<"profit">>
                        /\ t.settlement_price = Some(price)
                        /\ t.result = Some(Scale * parameter.profit)
                ELSE \E n \in Open' :
                        /\ n.id = o.id
                        /\ n.result = None
                        /\ n.settlement_price = None

C20_Step ==
    (SettlementStep /\ ~AllFlag(Val(data'), parameter)) =>
        \A row \in CandidateRows : C20_OnRow(row) \/ ~IsStepRow(row)

\* C20: on a bar without forced closure, the profit rule settles a buy that
\* the loss rule left open if and only if profit_price < high, at the price
\* high, and such a sell if and only if profit_price > low + spread, at the
\* price low + spread, in both cases with result = profit; a position whose
\* condition does not hold stays open with result and settlement_price
\* null.
C20_ProfitFixed == [][C20_Step]_vars

\* The profit rule has settled a buy and, on the last bar taken, a sell, at
\* a price below the close of the bar plus its spread.
C20_Witness ==
    /\ pc = "order"
    /\ \E t \in Settled : t.by = <<"profit">> /\ t.direction = ASK
    /\ \E t \in Settled :
        /\ t.by = <<"profit">>
        /\ t.direction = BID
        /\ t.settlement_time = Some(idx)
        /\ Val(t.settlement_price) < Val(data).close + Val(data).spread

\* What the forced closure has done to the open positions if the bar of
\* the step is row.
C21_OnRow(row) ==
    \A o \in Open :
        LET buy   == o.direction = ASK
            price == IF buy THEN row.open ELSE row.open + row.spread
            delta == IF buy
                     THEN row.open - o.order_price
                     ELSE o.order_price - (row.open + row.spread)
        IN  \E t \in NewlySettled :
                /\ t = [o EXCEPT !.settlement_price = Some(price),
                                 !.result = Some(Round2(delta, parameter.pip)),
                                 !.settlement_time = Some(row.time),
                                 !.by = <<"all">>]

C21_Step ==
    (SettlementStep /\ Val(data').hour >= parameter.trade_end_hour) =>
        \A row \in CandidateRows : C21_OnRow(row) \/ ~IsStepRow(row)

\* C21: a forced closure settles a buy at the bar's open with result =
\* round((open - order_price) / pip, 2) and a sell at open + spread with
\* result = round((order_price - (open + spread)) / pip, 2), whatever the
\* sign and the size of the result, and changes nothing else of the
\* position.
C21_MarkToOpen == [][C21_Step]_vars

\* One bar force-closed a position with a gain larger than the configured
\* loss and another one with a loss.
C21_Witness ==
    /\ pc = "order"
    /\ \E t \in Settled :
        /\ t.by = <<"all">>
        /\ t.settlement_time = Some(idx)
        /\ Val(t.result) > Scale * parameter.loss
    /\ \E t \in Settled :
        /\ t.by = <<"all">>
        /\ t.settlement_time = Some(idx)
        /\ Val(t.result) < 0

\* C22 as stated: after run(), the rows of result_df are sorted by
\* order_time.
C22_SortedByOrderTime ==
    (pc = "done" /\ result_df # None) =>
        \A i \in 1 .. Len(Val(result_df)) : \A j \in 1 .. Len(Val(result_df)) :
            i < j => Val(result_df)[i].order_time <= Val(result_df)[j].order_time

\* C22, amended: after run(), result_df is the settlement history in the
\* order of its appends: its rows are sorted by settlement_time, and it is
\* not built when nothing was settled.
C22_ResultTable ==
    pc = "done" =>
        IF Len(settlements) = 0
        THEN result_df = None
        ELSE /\ result_df = Some(settlements)
             /\ \A i \in 1 .. Len(Val(result_df)) : \A j \in 1 .. Len(Val(result_df)) :
                    i < j => Val(Val(result_df)[i].settlement_time)
                                 <= Val(Val(result_df)[j].settlement_time)

\* run() has returned with a table in which a row opened on a later bar
\* comes before a row opened on an earlier bar.
C22_Witness ==
    /\ pc = "done"
    /\ result_df = Some(settlements)
    /\ \E i \in 1 .. Len(Val(result_df)) : \E j \in 1 .. Len(Val(result_df)) :
        /\ i < j
        /\ Val(result_df)[i].order_time > Val(result_df)[j].order_time

\* The row a comes before the row b in the order of the history: an
\* earlier bar of settlement, or the same bar and a buy before a sell, or the
\* same bar and direction and a later opening.
C23_Before(a, b) ==
    \/ Val(a.settlement_time) < Val(b.settlement_time)
    \/ /\ a.settlement_time = b.settlement_time
       /\ a.direction = ASK
       /\ b.direction = BID
    \/ /\ a.settlement_time = b.settlement_time
       /\ a.direction = b.direction
       /\ a.order_time > b.order_time

\* C23: the history is ordered by bar of settlement, within a bar the
\* settled buys come before the settled sells, and within a direction the
\* positions opened later come first; the order of the history is the one
\* order of its rows with these three properties.
C23_HistoryOrder ==
    \A i \in 1 .. Len(settlements) : \A j \in 1 .. Len(settlements) :
        i < j => C23_Before(settlements[i], settlements[j])

\* One bar settled two positions of one direction: the one opened later is
\* the earlier row.
C23_Witness ==
    \E i \in 1 .. Len(settlements) - 1 :
        /\ settlements[i].settlement_time = settlements[i + 1].settlement_time
        /\ settlements[i].direction = settlements[i + 1].direction
        /\ settlements[i].order_time > settlements[i + 1].order_time

\* C24: the step on which the direction function raises places no order
\* and changes neither the book nor the history; after it run() takes no
\* further step: the function has been called once for the bar, no later
\* bar is taken, no position carries the time of the bar and result_df is
\* not built.
C24_State ==
    pc = "failed" =>
        /\ asked = 1
        /\ calls = <<>>
        /\ result_df = None
        /\ nsettle = idx
        /\ \A o \in Open \cup Settled : o.order_time < idx

C24_Step ==
    /\ C24_State'
    /\ (pc # "failed" /\ pc' = "failed") =>
            /\ pc = "order"
            /\ orders' = orders
            /\ settlements' = settlements
            /\ opened' = opened
            /\ idx' = idx
    /\ pc = "failed" => UNCHANGED vars

C24_FailFast == C24_State /\ [][C24_Step]_vars

\* The direction function raised on a bar that is not the last one, with a
\* position open and a position settled.
C24_Witness ==
    /\ pc = "failed"
    /\ idx < MaxBars
    /\ Open # {}
    /\ Len(settlements) > 0

\* The parameter names a column the series does not have.
MissingColumn == \E r \in LookupSet : \A i \in 1 .. Len(Columns) : Columns[i] # binding[r]

\* C25: with a column name that is not a column of the series, the
\* construction fails: the step of __init__ ends in the failure, and no bar
\* is ever taken, no settlement called and no position opened.
C25_State ==
    MissingColumn =>
        /\ pc \in {"init", "init_failed"}
        /\ idx = 0
        /\ nsettle = 0
        /\ opened = 0
        /\ result_df = None

C25_Step ==
    /\ C25_State'
    /\ (pc = "init" /\ pc' # "init") =>
            pc' = IF MissingColumn THEN "init_failed" ELSE "for"
    /\ pc = "init_failed" => UNCHANGED vars

C25_ConstructionFails == C25_State /\ [][C25_Step]_vars

\* The construction failed at its last lookup, the spread column, after
\* the five other indexes had been set.
C25_Witness ==
    /\ pc = "init_failed"
    /\ binding["spread"] = "absent"
    /\ index["spread"] = None
    /\ \A r \in LookupSet \ {"spread"} : index[r] # None

\* The loop has taken the rows 1 .. idx of the series, each once: one call of
\* __settlement per row taken, and the row of the loop body is row idx.
C26_State ==
    /\ nsettle = idx
    /\ idx <= MaxBars
    /\ pc = "order" => data # None /\ Val(data).time = idx

\* The loop takes the rows one at a time in the order of the series, runs
\* the rest of the body once for the row taken, and nothing follows the
\* return of run().
C26_Step ==
    /\ idx' # idx =>
            /\ pc = "for" /\ pc' = "order"
            /\ idx' = idx + 1
            /\ Val(data').time = idx + 1
    /\ pc = "order" => pc' \in {"for", "failed"} /\ idx' = idx
    /\ pc = "done" => UNCHANGED vars

\* C26: run() processes each candle of the series exactly once, in the
\* order of the series, and, when no call of the direction function raises,
\* terminates.
C26_Terminates ==
    /\ []C26_State
    /\ [][C26_Step]_vars
    /\ <>(pc = "done" \/ pc = "failed")

\* run() returned after the whole series of MaxBars rows, with positions
\* opened and settled on the way.
C26_Witness ==
    /\ pc = "done"
    /\ idx = MaxBars
    /\ nsettle = MaxBars
    /\ opened > 0
    /\ Len(settlements) > 0

\* The book and the history of instance i are those of its run() by itself
\* over the rows it has taken.
C27_AsAlone(i) ==
    LET a == Alone(runs[i].parameter, runs[i].fn, df, runs[i].idx)
    IN  /\ Book(i).orders = a.orders
        /\ Book(i).settlements = a.settlements
        /\ runs[i].pc = "done" => runs[i].idx = Len(df)

C27_State == \A i \in Instances : C27_AsAlone(i)

\* A step of one instance leaves the series, the other instance and the
\* other instance's book and history as they were.
C27_Step ==
    /\ df' = df
    /\ \A i \in Instances :
           runs'[i] # runs[i] =>
               \A j \in Instances \ {i} : runs'[j] = runs[j] /\ Book(j)' = Book(j)

\* C27: two Backtest instances over one candle series, their run() calls
\* interleaved bar by bar in any order, each hold the order book and the
\* settlement history of their run() by itself, and no step changes the
\* series or the other instance's book or history.
C27_Isolation == []C27_State /\ [][C27_Step]_vars

\* The second instance has finished with trades settled while the first
\* is in the middle of the series with a position open, and the two
\* histories differ.
C27_Witness ==
    /\ runs # <<>>
    /\ runs[2].pc = "done"
    /\ runs[1].pc = "for" /\ runs[1].idx = 1
    /\ Book(1).orders[ASK] # <<>>
    /\ Len(Book(2).settlements) > 0
    /\ Book(1).settlements # Book(2).settlements

\* The trades of the table that won, those that lost, and those of the
\* bucket of trade i under a grouping.
Wins == { i \in 1 .. Len(table) : table[i].result >= 0 }
Losses == { i \in 1 .. Len(table) : table[i].result < 0 }
BucketOf(i, group_list) ==
    { j \in 1 .. Len(table) :
        \A k \in 1 .. Len(group_list) : table[j][group_list[k]] = table[i][group_list[k]] }

\* The fields of a report or of a bucket of it, over the trades S.
C28_Fields(r, S) ==
    /\ r.profit_count = Cardinality(S \cap Wins)
    /\ r.loss_count = Cardinality(S \cap Losses)
    /\ r.total_count = r.profit_count + r.loss_count
    /\ r.total_count = Cardinality(S)
    /\ S # {} => r.profit_rate = Float(Round0(100 * Cardinality(S \cap Wins), Cardinality(S)))
    /\ r.result = SumResults(table, S)

\* A detail has one bucket for each key of the grouping that a trade has,
\* and the bucket carries the fields over the trades of that key.
C28_Buckets(detail, group_list) ==
    /\ \A i \in 1 .. Len(table) :
           \E b \in detail : /\ b.key = GroupKey(table[i], group_list)
                              /\ C28_Fields(b, BucketOf(i, group_list))
    /\ \A b \in detail : \E i \in 1 .. Len(table) : b.key = GroupKey(table[i], group_list)
    /\ \A b1, b2 \in detail : b1.key = b2.key => b1 = b2

\* C28: performance() counts a trade as a win iff its result is >= 0 and as
\* a loss iff it is < 0; total_count is the sum of the two counts and the
\* number of trades; profit_rate is round(100 * profit_count / total_count,
\* 0); result is the sum of the results; and each year, (year, month),
\* (year, week) and (year, month, day) bucket carries the same fields over
\* the trades of the bucket.
C28_Performance ==
    ppc = "reported" =>
        /\ C28_Fields(Val(report), 1 .. Len(table))
        /\ C28_Buckets(Val(report).detail.year, <<"year">>)
        /\ C28_Buckets(Val(report).detail.month, <<"year", "month">>)
        /\ C28_Buckets(Val(report).detail.week, <<"year", "week">>)
        /\ C28_Buckets(Val(report).detail.day, <<"year", "month", "day">>)

\* A report over a trade of result zero and a losing trade of another day
\* of the same year: one win, one loss, a rate of 50, two day buckets.
C28_Witness ==
    /\ ppc = "reported"
    /\ \E i \in 1 .. Len(table) : table[i].result = 0
    /\ Val(report).profit_count = 1
    /\ Val(report).loss_count = 1
    /\ Val(report).profit_rate = Float(50)
    /\ Cardinality(Val(report).detail.year) = 1
    /\ Cardinality(Val(report).detail.day) = 2

\* C29: with no trade, overall or in a bucket, the win rate of the report
\* is an explicit absent value and not NaN.
C29_NoNaN ==
    ppc = "reported" =>
        /\ ~Val(report).profit_rate.nan
        /\ \A g \in {"year", "month", "week", "day"} :
               \A b \in Val(report).detail[g] : ~b.profit_rate.nan

\* The ISO year of a date: the year its ISO week belongs to.
IsoYear(d) ==
    LET w == (DayOfYear(d) - Weekday(d) + 10) \div 7
    IN  IF w < 1 THEN d.year - 1
        ELSE IF w > WeeksInYear(d.year) THEN d.year + 1
        ELSE d.year

\* The trades whose order time is in the ISO week of trade i.
SameIsoWeek(i) ==
    { j \in 1 .. Len(table) :
        /\ IsoYear(table[j].order_time) = IsoYear(table[i].order_time)
        /\ IsoWeek(table[j].order_time) = IsoWeek(table[i].order_time) }

\* C30: two trades are counted in the same week bucket iff their order
\* times are in the same ISO week: the bucket of each trade counts the
\* trades of its ISO week, and no two buckets are of one ISO week.
C30_IsoWeekBuckets ==
    ppc = "reported" =>
        \A i \in 1 .. Len(table) :
            \E b \in Val(report).detail.week :
                /\ b.key = <<table[i].year, table[i].week>>
                /\ b.total_count = Cardinality(SameIsoWeek(i))
                /\ \A j \in SameIsoWeek(i) : b.key = <<table[j].year, table[j].week>>

\* C31: create_backtest_parameters_from_json returns one Parameter for each
\* combination of a direction range and a (profit, loss) pair, carrying the
\* combination's direction_parameter, profit and loss.
C31_OnePerCombination ==
    (ret # None /\ call.fn = "create_backtest_parameters_from_json") =>
        LET r  == Val(ret)
            dr == CreateDirectionRanges(call.args.direction_parameter)
            pl == CreateProfitLoss(call.args.json_data.profit_loss.min,
                                   call.args.json_data.profit_loss.max,
                                   call.args.json_data.profit_loss.increase).value
        IN  /\ ~r.raised
            /\ Len(r.value) = Len(dr) * Len(pl)
            /\ \A i \in 1 .. Len(dr), j \in 1 .. Len(pl) :
                   \E n \in 1 .. Len(r.value) :
                       /\ r.value[n].direction_parameter = [ranges |-> dr[i]]
                       /\ r.value[n].profit = pl[j][1]
                       /\ r.value[n].loss = pl[j][2]

\* The vote of a column as the claim states it.
C32_Vote(val, v) ==
    IF v.bid[1] > val /\ val >= v.bid[2] THEN "bid"
    ELSE IF v.ask[1] < val /\ val <= v.ask[2] THEN "ask"
    ELSE "none"

\* The votes of the configured columns of the call.
C32_Votes ==
    [k \in 1 .. Len(call.args.ranges) |->
        C32_Vote(call.args.data[Val(GetLoc(call.args.columns,
                                           call.args.ranges[k].column)) + 1],
                 call.args.ranges[k].ranges)]

\* C32: direction_by_value_range gives each configured column a vote, bid
\* before ask, none on an exclusive bound; it returns ASK iff there is a
\* column and every column votes ask, BID iff there is a column and every
\* column votes bid, and ZERO in every other case.
C32_Unanimous ==
    (/\ ret # None
     /\ call.fn = "direction_by_value_range"
     /\ \A k \in 1 .. Len(call.args.ranges) : call.args.ranges[k].column # "absent") =>
        LET r == Val(ret)
            n == Len(call.args.ranges)
        IN  /\ ~r.raised
            /\ r.value[1] = ASK <=> (n >= 1 /\ \A k \in 1 .. n : C32_Votes[k] = "ask")
            /\ r.value[1] = BID <=> (n >= 1 /\ \A k \in 1 .. n : C32_Votes[k] = "bid")
            /\ r.value[1] \in {ASK, ZERO, BID}

\* Two columns, both voting bid, one of them with a value that lies in its
\* ask range as well: the call returned BID.
C32_Witness ==
    /\ ret # None
    /\ call.fn = "direction_by_value_range"
    /\ Len(call.args.ranges) = 2
    /\ \A k \in 1 .. 2 : call.args.ranges[k].column # "absent"
    /\ ~Val(ret).raised
    /\ Val(ret).value[1] = BID
    /\ \E k \in 1 .. 2 :
           LET v   == call.args.ranges[k].ranges
               val == Val(ret).value[2][k].val
           IN  v.ask[1] < val /\ val <= v.ask[2]

\* C33: send_order and send_profit_and_loss raise RequestError whenever the
\* comment of the broker's response is not 'Request executed' and return
\* the response otherwise; send_order with a direction other than 1 or -1
\* returns None and sends no request.
C33_RequestError ==
    (ret # None /\ call.fn \in {"send_order", "send_profit_and_loss"}) =>
        /\ (sent # <<>> /\ sent[Len(sent)].response # None) =>
               LET response == sent[Len(sent)].response
               IN  IF Val(response).comment # "Request executed"
                   THEN Val(ret).raised /\ Val(ret).error = "RequestError"
                   ELSE ~Val(ret).raised /\ Val(ret).value = response
        /\ (call.fn = "send_order" /\ call.args.direction \notin {1, -1}) =>
               ~Val(ret).raised /\ Val(ret).value = None /\ sent = <<>>
        /\ Len(sent) <= 1

\* send_profit_and_loss sent the stop and target of a sell position and the
\* broker answered with another comment than 'Request executed'.
C33_Witness ==
    /\ ret # None
    /\ call.fn = "send_profit_and_loss"
    /\ Len(sent) = 1
    /\ sent[1].request.sl > sent[1].request.tp
    /\ sent[1].response # None
    /\ Val(sent[1].response).comment = "Requote"
    /\ Val(ret).raised

\* C34: a position the loss rule settles with its stop on the profitable
\* side of its entry (buy: loss_price > order_price, sell: loss_price <
\* order_price) has a result >= 0, never -loss.
C34_ClampOnlyLosses ==
    \A t \in Settled :
        (/\ t.by = <<"loss">>
         /\ IF t.direction = ASK
            THEN t.loss_price > t.order_price
            ELSE t.loss_price < t.order_price) =>
            Val(t.result) >= 0

\* What one invocation of __settlement on the bar row does to the positions
\* open before it: each position open before it is in the history as one rule settled
\* it and no longer open, or still open with at most its stop moved and not
\* in the history; nothing else was added or removed.
C35_OnRow(row) ==
    \A o \in Open :
        LET e == Evaluate(o, Settlement(row), AllFlag(row, parameter), parameter)
        IN  IF e.result # None
            THEN /\ Settle(e, row.time) \in NewlySettled
                 /\ e.by \in {<<"all">>, <<"loss">>, <<"profit">>}
                 /\ \A n \in Open' : n.id # o.id
            ELSE /\ e \in Open'
                 /\ e = [o EXCEPT !.loss_price = e.loss_price]
                 /\ \A t \in NewlySettled : t.id # o.id

\* A step of __settlement with positions open moves or keeps each of them
\* once, as the rules decide on a bar that agrees with the bar of the step.
C35_Step ==
    (SettlementStep /\ Open # {}) =>
        /\ Cardinality(NewlySettled) + Cardinality(Open') = Cardinality(Open)
        /\ Len(settlements') - Len(settlements) = Cardinality(NewlySettled)
        /\ \A d \in Directions : Len(orders'[d]) = Cardinality(Range(orders'[d]))
        /\ \E row \in CandidateRows : C35_OnRow(row)

\* C35: in one settlement invocation every position open at the start of
\* the bar is evaluated exactly once, whatever other positions the
\* invocation removes, and makes at most one transition: settled by exactly
\* one rule, or its stop trailed, or unchanged.
C35_EvaluatedOnce == [][C35_Step]_vars

\* One invocation settled two positions of one direction, one by the loss
\* rule and one by the profit rule.
C35_Witness ==
    /\ pc = "order"
    /\ \E i, j \in 1 .. Len(settlements) :
           /\ settlements[i].settlement_time = Some(idx)
           /\ settlements[j].settlement_time = Some(idx)
           /\ settlements[i].direction = settlements[j].direction
           /\ settlements[i].by = <<"loss">>
           /\ settlements[j].by = <<"profit">>

\* After the settlement of a bar whose hour is >= trade_end_hour the book
\* is empty.
C36_State ==
    (pc = "order" /\ Val(data).hour >= parameter.trade_end_hour) => Open = {}

\* The settlement of such a bar moves every open position to the history,
\* and the rest of the loop body leaves the book empty and the history as
\* it was.
C36_Step ==
    /\ (SettlementStep /\ Val(data').hour >= parameter.trade_end_hour) =>
            /\ \A d \in Directions : orders'[d] = <<>>
            /\ \A o \in Open :
                   \E t \in NewlySettled :
                       /\ t.id = o.id
                       /\ t.settlement_time = Some(Val(data').time)
            /\ Len(settlements') = Len(settlements) + Cardinality(Open)
    /\ (OrderStep /\ Val(data).hour >= parameter.trade_end_hour) =>
            /\ pc' = "for"
            /\ \A d \in Directions : orders'[d] = <<>>
            /\ opened' = opened
            /\ settlements' = settlements

\* C36: when run() has processed a bar whose hour is >= trade_end_hour the
\* order book is empty in both directions: every position open before the
\* bar is in the settlement history and the bar opened no position.
C36_BookEmptyAfterSessionEnd == []C36_State /\ [][C36_Step]_vars

\* A bar past the end of the session has been processed: it closed a buy
\* and a sell and left the book empty.
C36_Witness ==
    /\ pc = "for"
    /\ idx >= 2
    /\ Open = {}
    /\ \E t, u \in Settled :
           /\ t.direction = ASK /\ u.direction = BID
           /\ t.settlement_time = Some(idx) /\ u.settlement_time = Some(idx)
           /\ t.by = <<"all">> /\ u.by = <<"all">>

\* C37 as stated: with reverse_order, a loop body opens a position in the
\* direction opposite to the returned one only if it opens a position in
\* the returned direction on the same bar.
C37_OriginalStep ==
    (OrderStep /\ parameter.reverse_order /\ Len(calls') = 2) =>
        LET d == calls'[1].direction
        IN  \A o \in NewlyOpened :
                o.direction = Reverse(d) =>
                    \E q \in NewlyOpened :
                        q.direction = d /\ q.order_time = o.order_time

C37_MirrorNeedsPrimary == [][C37_OriginalStep]_vars

\* C37, amended: with reverse_order, a position in the direction opposite
\* to the returned one is opened on a bar only after __order was called in
\* the returned direction on that bar; a position in the returned direction
\* is opened on the same bar as well unless that direction already held
\* position_count open positions, and then the mirrored position is opened
\* alone.
C37_Step ==
    (OrderStep /\ parameter.reverse_order) =>
        \A o \in NewlyOpened :
            /\ Len(calls') = 2
            /\ calls'[2].direction = Reverse(calls'[1].direction)
            /\ LET d == calls'[1].direction
               IN  o.direction = Reverse(d) =>
                       \/ \E q \in NewlyOpened :
                              q.direction = d /\ q.order_time = o.order_time
                       \/ /\ Len(orders[d]) >= parameter.position_count
                          /\ ~calls'[1].placed
                          /\ orders'[d] = orders[d]

C37_MirrorAfterPrimaryCall == [][C37_Step]_vars

\* With reverse_order, the last loop body opened the mirrored position
\* alone: the returned direction was full.
C37_Witness ==
    /\ pc = "for"
    /\ parameter.reverse_order
    /\ Len(calls) = 2
    /\ ~calls[1].placed /\ calls[2].placed
    /\ \E o \in Range(orders[calls[2].direction]) : o.order_time = idx
    /\ \A q \in Range(orders[calls[1].direction]) : q.order_time < idx

\* Without trail_stop every position, open or settled, has the take-profit
\* and stop-loss prices __order computes from its entry price.
C38_State ==
    ~parameter.trail_stop =>
        \A o \in Open \cup Settled :
            LET profit_pip == parameter.profit * parameter.pip
                loss_pip   == parameter.loss * parameter.pip
            IN  IF o.direction = ASK
                THEN /\ o.profit_price = o.order_price + profit_pip
                     /\ o.loss_price = o.order_price - loss_pip
                ELSE /\ o.profit_price = o.order_price - profit_pip
                     /\ o.loss_price = o.order_price + loss_pip

\* Without trail_stop every step keeps every position, open or settled,
\* with its three prices.
C38_Step ==
    ~parameter.trail_stop =>
        \A o \in Open \cup Settled :
            \E n \in Open' \cup Settled' :
                /\ n.id = o.id
                /\ n.order_price = o.order_price
                /\ n.profit_price = o.profit_price
                /\ n.loss_price = o.loss_price

\* C38: with trail_stop disabled the order_price, profit_price and
\* loss_price of a position keep the values set when it was opened, over
\* any sequence of bars, up to and after its settlement.
C38_PricesFrozen == []C38_State /\ [][C38_Step]_vars

\* Without trail_stop, a position opened on the first bar is open after the
\* settlement of the third bar, which settled another position.
C38_Witness ==
    /\ ~parameter.trail_stop
    /\ pc = "order"
    /\ idx = 3
    /\ \E o \in Open : o.order_time = 1
    /\ \E t \in Settled : t.settlement_time = Some(idx)

\* The rows of result_df.
C39_Rows == IF result_df = None THEN {} ELSE Range(Val(result_df))

\* C39: when run() has finished, the positions that no stop-loss,
\* take-profit or forced-closure bar settled are in the order book with
\* null settlement fields and are not rows of result_df; result_df is the
\* settlement history in the order of its appends, every row of it
\* settled, and is None when no position was settled; every position
\* opened is in exactly one of the two.
C39_UnsettledStayOpen ==
    pc = "done" =>
        /\ \A o \in Open :
               /\ o.result = None
               /\ o.settlement_time = None
               /\ o.settlement_price = None
               /\ \A t \in C39_Rows : t.id # o.id
        /\ (result_df = None) <=> (settlements = <<>>)
        /\ result_df # None => Val(result_df) = settlements
        /\ \A t \in C39_Rows : t.result # None /\ t.settlement_time # None
        /\ { o.id : o \in Open } \cup { t.id : t \in C39_Rows } = 1 .. opened
        /\ Cardinality(Open) + Cardinality(C39_Rows) = opened

\* run() has finished with a table and with a position in the book that
\* was opened on the first bar and never settled.
C39_Witness ==
    /\ pc = "done"
    /\ idx = MaxBars
    /\ result_df # None
    /\ \E o \in Open : o.order_time = 1 /\ o.result = None

\* The values min_value, min_value + increase, ... that are <= max_value.
C40_Values(min_value, max_value, increase) ==
    { v \in min_value .. max_value : (v - min_value) % increase = 0 }

\* C40: create_profit_loss with increase > 0 and min_value <= max_value
\* returns every ordered pair of the values min_value, min_value +
\* increase, ... that are <= max_value, each pair once, and no profit or
\* loss greater than max_value.
C40_PairsWithinMax ==
    ( /\ ret # None
      /\ call.fn = "create_profit_loss"
      /\ call.args.increase > 0
      /\ call.args.min <= call.args.max )
    => LET r      == Val(ret)
           values == C40_Values(call.args.min, call.args.max, call.args.increase)
       IN  /\ ~r.raised
           /\ Range(r.value) = { <<profit, loss>> : profit \in values, loss \in values }
           /\ Len(r.value) = Cardinality(values) * Cardinality(values)
           /\ \A k \in 1 .. Len(r.value) :
                  r.value[k][1] <= call.args.max /\ r.value[k][2] <= call.args.max

====
